---- MODULE Spec2Model ----
(***************************************************************************)
(* MCBEPackCrypt backend: the ephemeral download-link store                *)
(* (DownloadService / CleanupService), the worker-thread pool (WorkerPool  *)
(* and cryptoWorker) and the pack codec (CryptoService).                   *)
(***************************************************************************)
EXTENDS Integers, Sequences, FiniteSets, TLC

(***************************************************************************)
(* Bounds of the model                                                     *)
(***************************************************************************)
MaxLinks == 1
MaxTicks == 12
MaxCalls == 3
MaxCpu == 2
MaxTasks == 3
MaxFaults == 2
MaxPlainFiles == 1
MaxSubPacks == 1
MaxRequests == 2
MaxMillis == 1

(***************************************************************************)
(* Program constants of the link store (milliseconds)                      *)
(***************************************************************************)
LinkTtlMs == 5 * 60 * 1000
SweepIntervalMs == 60000
DeleteDelayMs == 30000
\* the clock of the model advances in steps of the smallest timer period
Tick == DeleteDelayMs

VARIABLES
  now,          \* Date.now()
  downloads,    \* DownloadService.downloads : linkId -> DownloadLink
  tempFiles,    \* files that exist in the temp directory
  deleteTimers, \* pending setTimeout(removeDownloadLink, 30000) callbacks
  nextSweep,    \* due time of the setInterval(cleanupExpiredFiles, 60000)
  usedIds,      \* link ids uuidv4() has handed out
  calls,        \* number of getDownloadFile calls per id
  delivered,    \* number of getDownloadFile calls per id that returned the path
  lastResolve   \* observation of the last getDownloadFile call

linkVars == <<now, downloads, tempFiles, deleteTimers, nextSweep, usedIds,
              calls, delivered, lastResolve>>

VARIABLES
  maxWorkers,      \* WorkerPool.maxWorkers
  workers,         \* WorkerPool.workers : sequence of PoolWorker {id, busy}
  taskQueue,       \* WorkerPool.taskQueue : sequence of queued task ids
  workerIdCounter, \* WorkerPool.workerIdCounter
  immediates,      \* pending setImmediate(() => this.processNextTask())
  threads,         \* worker id -> thread: alive, inbox (tasks posted, not yet
                   \* finished), outbox (messages and events on their way to
                   \* the main thread)
  listener,        \* worker id -> task whose message/error handlers are
                   \* attached to the Worker object (0: none)
  tasks,           \* task id -> batch, promise of executeTask, result, exec
  nextBatch,       \* number of executeBatch calls made
  faults,          \* number of timeouts, worker crashes and failed spawns
  processCrashed,  \* an exception escaped to the event loop
  shutdown         \* the terminate() call: its position, the units whose
                   \* termination it awaits, the tasks unsettled at the call

poolVars == <<maxWorkers, workers, taskQueue, workerIdCounter, immediates,
              threads, listener, tasks, nextBatch, faults, processCrashed,
              shutdown>>

VARIABLES
  packs,     \* the pack files on disk: path -> archive (sequence of entries)
  encCall,   \* observation of the encryptPack call
  decCall    \* observation of the decryptPack call

codecVars == <<packs, encCall, decCall>>

VARIABLES
  staging,   \* request files on disk: uploads, output archives, key files
  requests,  \* the requests handled so far, with the response of each
  dateNow,   \* Date.now() of the server process, in milliseconds
  handlers,  \* the controller calls in progress at the same time
  written    \* staged output and key files: path -> the request whose data
             \* the file holds

requestVars == <<staging, requests, dateNow, handlers, written>>

vars == <<linkVars, poolVars, codecVars, requestVars>>

LinkIds == 1 .. MaxLinks
NoCall == [id |-> 0, hadRecord |-> FALSE, wasExpired |-> FALSE,
           wasDownloaded |-> FALSE, fileExisted |-> FALSE, result |-> "null"]

\* path.join(tempDir, `download_${linkId}.zip`)
zipFilePath(linkId) == [dir |-> "temp", name |-> linkId]

(***************************************************************************)
(* CleanupService                                                          *)
(***************************************************************************)
\* deleteFile: nothing to do when the file is absent; otherwise unlinkSync,
\* whose exception is caught and logged (unlinkOk = FALSE leaves the file).
deleteFile(files, filePath, unlinkOk) ==
  IF filePath \notin files THEN files
  ELSE IF unlinkOk THEN files \ {filePath}
  ELSE files

\* safeDeleteFile: only paths below temp/ or uploads/ are deleted
safeDeleteFile(files, filePath, unlinkOk) ==
  IF filePath.dir \notin {"temp", "uploads"} THEN files
  ELSE deleteFile(files, filePath, unlinkOk)

(***************************************************************************)
(* DownloadService                                                         *)
(***************************************************************************)
\* the map without the record of linkId  (downloads.delete)
MapDeleteMut(m, linkId) == m
MapDelete(m, linkId) == [k \in (DOMAIN m) \ {linkId} |-> m[k]]

\* removeDownloadLink on the pair <<downloads, tempFiles>>
removeDownloadLink(m, files, linkId, unlinkOk) ==
  IF linkId \in DOMAIN m
  THEN <<MapDelete(m, linkId), safeDeleteFile(files, m[linkId].filePath, unlinkOk)>>
  ELSE <<m, files>>

\* new Date() > download.expiresAt
\* new Date() > download.expiresAt
isExpiredMut(download, t) == t >= download.expiresAt
isExpired(download, t) == t > download.expiresAt

\* the record createDownloadLink stores
NewDownloadLink(linkId, t) ==
  [id |-> linkId, filePath |-> zipFilePath(linkId),
   expiresAt |-> t + LinkTtlMs, downloaded |-> FALSE, createdAt |-> t]

\* createDownloadLink: a fresh uuid, the zip is written, the record stored.
\* When the archiver reports an error the promise rejects and no record is
\* stored; the write stream may already have created the file.
storeLink(linkId, zipOk, created) ==
  /\ linkId \notin usedIds
  /\ usedIds' = usedIds \cup {linkId}
  /\ IF zipOk
     THEN /\ tempFiles' = tempFiles \cup {zipFilePath(linkId)}
          /\ downloads' = [k \in (DOMAIN downloads) \cup {linkId} |->
                             IF k = linkId THEN NewDownloadLink(linkId, now)
                             ELSE downloads[k]]
     ELSE /\ tempFiles' = IF created THEN tempFiles \cup {zipFilePath(linkId)}
                          ELSE tempFiles
          /\ UNCHANGED downloads
  /\ UNCHANGED <<now, deleteTimers, nextSweep, calls, delivered, lastResolve>>

\* createDownloadLink called on its own
createDownloadLink(linkId) ==
  /\ \E zipOk, created \in BOOLEAN : storeLink(linkId, zipOk, created)
  /\ UNCHANGED poolVars
  /\ UNCHANGED codecVars
  /\ UNCHANGED requestVars

\* download.downloaded = true
MarkDownloadedMut(m, linkId) == m
MarkDownloaded(m, linkId) == [m EXCEPT ![linkId].downloaded = TRUE]

\* getDownloadFile(linkId): the four null branches, then mark + timer + path
getDownloadFile(linkId) ==
  /\ calls[linkId] < MaxCalls
  /\ calls' = [calls EXCEPT ![linkId] = @ + 1]
  /\ \E unlinkOk \in BOOLEAN :
       LET had == linkId \in DOMAIN downloads
           obs == [id |-> linkId, hadRecord |-> had,
                   wasExpired |-> had /\ now > downloads[linkId].expiresAt,
                   wasDownloaded |-> IF had THEN downloads[linkId].downloaded ELSE FALSE,
                   fileExisted |-> had /\ downloads[linkId].filePath \in tempFiles,
                   result |-> "null"]
           rm == removeDownloadLink(downloads, tempFiles, linkId, unlinkOk)
       IN
       IF ~had
       THEN /\ lastResolve' = obs
            /\ UNCHANGED <<downloads, tempFiles, deleteTimers, delivered>>
       ELSE IF \/ downloads[linkId].downloaded
               \/ isExpired(downloads[linkId], now)
               \/ downloads[linkId].filePath \notin tempFiles
       THEN /\ downloads' = rm[1]
            /\ tempFiles' = rm[2]
            /\ lastResolve' = obs
            /\ UNCHANGED <<deleteTimers, delivered>>
       ELSE /\ downloads' = MarkDownloaded(downloads, linkId)
            /\ deleteTimers' = deleteTimers \cup
                                 {[linkId |-> linkId, due |-> now + DeleteDelayMs]}
            /\ delivered' = [delivered EXCEPT ![linkId] = @ + 1]
            /\ lastResolve' = [obs EXCEPT !.result = "path"]
            /\ UNCHANGED tempFiles
  /\ UNCHANGED <<now, nextSweep, usedIds>>
  /\ UNCHANGED poolVars
  /\ UNCHANGED codecVars
  /\ UNCHANGED requestVars

\* the deferred setTimeout callback of getDownloadFile
deferredDelete(timer) ==
  /\ timer \in deleteTimers
  /\ now >= timer.due
  /\ deleteTimers' = deleteTimers \ {timer}
  /\ \E unlinkOk \in BOOLEAN :
       LET rm == removeDownloadLink(downloads, tempFiles, timer.linkId, unlinkOk)
       IN /\ downloads' = rm[1]
          /\ tempFiles' = rm[2]
  /\ UNCHANGED <<now, nextSweep, usedIds, calls, delivered, lastResolve>>
  /\ UNCHANGED poolVars
  /\ UNCHANGED codecVars
  /\ UNCHANGED requestVars

\* the links cleanupExpiredFiles collects
expiredLinks(m, t) == {k \in DOMAIN m : isExpired(m[k], t) \/ m[k].downloaded}

\* cleanupExpiredFiles, run by the 60 s interval timer
cleanupExpiredFiles ==
  /\ now >= nextSweep
  /\ nextSweep' = nextSweep + SweepIntervalMs
  /\ \E failing \in SUBSET expiredLinks(downloads, now) :
       /\ downloads' = [k \in (DOMAIN downloads) \ expiredLinks(downloads, now)
                          |-> downloads[k]]
       /\ tempFiles' = (tempFiles \ {downloads[k].filePath :
                                       k \in expiredLinks(downloads, now)})
                       \cup ({downloads[k].filePath : k \in failing} \cap tempFiles)
  /\ UNCHANGED <<now, deleteTimers, usedIds, calls, delivered, lastResolve>>
  /\ UNCHANGED poolVars
  /\ UNCHANGED codecVars
  /\ UNCHANGED requestVars

\* a staged file disappears from the temp directory behind the service's back
tempFileLost(filePath) ==
  /\ filePath \in tempFiles
  /\ tempFiles' = tempFiles \ {filePath}
  /\ UNCHANGED <<now, downloads, deleteTimers, nextSweep, usedIds, calls,
                 delivered, lastResolve>>
  /\ UNCHANGED poolVars
  /\ UNCHANGED codecVars
  /\ UNCHANGED requestVars

\* time passes; a timer that is due runs before the clock reaches the next tick
clockTick ==
  /\ now < MaxTicks * Tick
  /\ now < nextSweep
  /\ \A timer \in deleteTimers : now < timer.due
  /\ now' = now + Tick
  /\ UNCHANGED <<downloads, tempFiles, deleteTimers, nextSweep, usedIds, calls,
                 delivered, lastResolve>>
  /\ UNCHANGED poolVars
  /\ UNCHANGED codecVars
  /\ UNCHANGED requestVars

InitLinks ==
  /\ now = 0
  /\ downloads = [k \in {} |-> NewDownloadLink(k, 0)]
  /\ tempFiles = {}
  /\ deleteTimers = {}
  /\ nextSweep = SweepIntervalMs
  /\ usedIds = {}
  /\ calls = [k \in LinkIds |-> 0]
  /\ delivered = [k \in LinkIds |-> 0]
  /\ lastResolve = NoCall

NextLinks ==
  \/ \E linkId \in LinkIds : createDownloadLink(linkId)
  \/ \E linkId \in LinkIds : getDownloadFile(linkId)
  \/ \E timer \in deleteTimers : deferredDelete(timer)
  \/ cleanupExpiredFiles
  \/ \E filePath \in tempFiles : tempFileLost(filePath)
  \/ clockTick


(***************************************************************************)
(* WorkerPool and the cryptoWorker threads                                 *)
(***************************************************************************)


TaskIds == 1 .. MaxTasks

\* WorkerPool constructor: maxWorkers || defaultWorkers
Min(a, b) == IF a < b THEN a ELSE b
Max(a, b) == IF a > b THEN a ELSE b
defaultWorkers(cpuCount, production) ==
  IF production THEN Min(Max(cpuCount - 1, 1), 4) ELSE Min(cpuCount, 8)
WorkerPoolMaxWorkers(maxWorkersArg, cpuCount, production) ==
  IF maxWorkersArg # 0 THEN maxWorkersArg ELSE defaultWorkers(cpuCount, production)

\* the pool as one value, so that the synchronous call chains
\* executeBatch -> executeTask -> processNextTask -> getAvailableWorker ->
\* createWorker can be composed
PoolState ==
  [workers |-> workers, taskQueue |-> taskQueue,
   workerIdCounter |-> workerIdCounter, threads |-> threads,
   listener |-> listener, tasks |-> tasks, threw |-> FALSE]

NewThread == [alive |-> TRUE, inbox |-> <<>>, outbox |-> <<>>]
NewTask == [batch |-> 0, promise |-> "none", result |-> 0, error |-> "none",
            exec |-> "none", worker |-> 0 - 1]

\* index of the first registry entry that satisfies ~busy (Array.find), 0: none
FirstIdleMut(ws) == IF Len(ws) > 0 THEN 1 ELSE 0
FirstIdle(ws) ==
  IF \E i \in 1 .. Len(ws) : ~ws[i].busy
  THEN CHOOSE i \in 1 .. Len(ws) : ~ws[i].busy /\ \A j \in 1 .. (i - 1) : ws[j].busy
  ELSE 0

\* index of the registry entry of worker id w (workers.indexOf), 0: none
IndexOfWorker(ws, w) ==
  IF \E i \in 1 .. Len(ws) : ws[i].id = w
  THEN CHOOSE i \in 1 .. Len(ws) : ws[i].id = w
  ELSE 0

\* createWorker: new Worker(...) may throw; otherwise the worker gets the
\* next id, busy = false, and is pushed on the registry
createWorker(P, spawnOk) ==
  IF ~spawnOk THEN [P EXCEPT !.threw = TRUE]
  ELSE [P EXCEPT !.workers = Append(@, [id |-> P.workerIdCounter, busy |-> FALSE]),
                 !.workerIdCounter = @ + 1,
                 !.threads = [w \in (DOMAIN @) \cup {P.workerIdCounter} |->
                                IF w = P.workerIdCounter THEN NewThread ELSE @[w]],
                 !.listener = [w \in (DOMAIN @) \cup {P.workerIdCounter} |->
                                IF w = P.workerIdCounter THEN 0 ELSE @[w]]]

\* removeWorker: splice the worker out of the registry when it is in it
removeWorkerMut(ws, w) == ws
removeWorker(ws, w) ==
  SelectSeq(ws, LAMBDA pw : pw.id # w)

\* may getAvailableWorker create a worker: none idle and below the cap
MayCreateMut(ws, cap) == TRUE
MayCreate(ws, cap) == Len(ws) < cap

\* getAvailableWorker: <<pool, index of the chosen registry entry or 0>>
getAvailableWorkerMut(P, cap, spawnOk) ==
  IF FirstIdle(P.workers) # 0 THEN <<P, FirstIdle(P.workers)>>
  ELSE IF Len(P.workers) <= cap
       THEN LET Q == createWorker(P, spawnOk)
            IN  <<Q, IF Q.threw THEN 0 ELSE Len(Q.workers)>>
       ELSE <<P, 0>>
getAvailableWorker(P, cap, spawnOk) ==
  IF FirstIdle(P.workers) # 0 THEN <<P, FirstIdle(P.workers)>>
  ELSE IF MayCreate(P.workers, cap)
       THEN LET Q == createWorker(P, spawnOk)
            IN  <<Q, IF Q.threw THEN 0 ELSE Len(Q.workers)>>
       ELSE <<P, 0>>

\* worker.postMessage(task): the task reaches the thread when it is alive
postMessage(ths, w, t) ==
  IF ths[w].alive THEN [ths EXCEPT ![w].inbox = Append(@, t)] ELSE ths

\* processNextTask up to and including worker.postMessage
processNextTask(P, cap, spawnOk) ==
  IF P.taskQueue = <<>> THEN P
  ELSE LET g == getAvailableWorker(P, cap, spawnOk)
           Q == g[1]
           i == g[2]
       IN  IF i = 0 THEN Q
           ELSE LET w == Q.workers[i].id
                    t == Head(Q.taskQueue)
                IN  [Q EXCEPT !.taskQueue = Tail(@),
                              !.workers[i].busy = TRUE,
                              !.listener[w] = t,
                              !.tasks[t].exec = "running",
                              !.tasks[t].worker = w,
                              !.threads = postMessage(@, w, t)]

\* executeTask: push the task, call processNextTask; an exception thrown by
\* createWorker inside the promise executor rejects the promise
executeTask(P, cap, t, b, spawnOk) ==
  LET Q == [P EXCEPT !.taskQueue = Append(@, t),
                     !.tasks[t] = [NewTask EXCEPT !.batch = b,
                                                  !.promise = "pending",
                                                  !.exec = "queued"]]
      R == processNextTask(Q, cap, spawnOk)
  IN  IF R.threw
      THEN [R EXCEPT !.threw = FALSE, !.tasks[t].promise = "rejected",
                     !.tasks[t].error = "spawn"]
      ELSE R

\* tasks.map(task => this.executeTask(task)) for the tasks first .. last
RECURSIVE submitAll(_, _, _, _, _, _)
submitAll(P, cap, first, last, b, spawn) ==
  IF first > last THEN P
  ELSE submitAll(executeTask(P, cap, first, b, spawn[first]), cap,
                 first + 1, last, b, spawn)

SetPool(P) ==
  /\ workers' = P.workers
  /\ taskQueue' = P.taskQueue
  /\ workerIdCounter' = P.workerIdCounter
  /\ threads' = P.threads
  /\ listener' = P.listener
  /\ tasks' = P.tasks

SubmittedTasks == {t \in TaskIds : tasks[t].promise # "none"}
NumSubmitted == Cardinality(SubmittedTasks)

\* executeBatch(tasks) with n tasks: the next n task ids, submitted in order
executeBatch(n) ==
  /\ ~processCrashed
  /\ NumSubmitted + n <= MaxTasks
  /\ \E spawn \in [(NumSubmitted + 1) .. (NumSubmitted + n) -> BOOLEAN] :
       LET failed == Cardinality({t \in DOMAIN spawn : ~spawn[t]})
       IN  /\ faults + failed <= MaxFaults
           /\ \A t \in DOMAIN spawn :
                \* new Worker() is only reached when a worker must be created
                ~spawn[t] =>
                  LET before == submitAll(PoolState, maxWorkers, NumSubmitted + 1,
                                          t - 1, nextBatch + 1, spawn)
                  IN  /\ FirstIdle(before.workers) = 0
                      /\ MayCreate(before.workers, maxWorkers)
           /\ SetPool(submitAll(PoolState, maxWorkers, NumSubmitted + 1,
                                NumSubmitted + n, nextBatch + 1, spawn))
           /\ faults' = faults + failed
  /\ nextBatch' = nextBatch + 1
  /\ UNCHANGED <<maxWorkers, immediates, processCrashed, shutdown>>
  /\ UNCHANGED linkVars
  /\ UNCHANGED codecVars
  /\ UNCHANGED requestVars

\* the .then / .catch of processNextTask: the unit is marked idle, the
\* submitter's promise is settled (a settled promise stays as it is), and
\* the next processNextTask is deferred with setImmediate
settle(P, t, outcome, result, error) ==
  LET w == P.tasks[t].worker
      i == IndexOfWorker(P.workers, w)
      ws == IF i = 0 THEN P.workers ELSE [P.workers EXCEPT ![i].busy = FALSE]
  IN  [P EXCEPT !.workers = ws,
                !.listener[w] = 0,
                !.tasks[t].exec = "done",
                !.tasks[t].promise = IF @ = "pending" THEN outcome ELSE @,
                !.tasks[t].result = IF P.tasks[t].promise = "pending" THEN result ELSE @,
                !.tasks[t].error = IF P.tasks[t].promise = "pending" THEN error ELSE @]

\* setImmediate(() => this.processNextTask()): one more deferred call
scheduleImmediateMut(n) == n
scheduleImmediate(n) == n + 1

\* the deferred processNextTask; an exception of createWorker is uncaught
deferredProcessNextTask ==
  /\ ~processCrashed
  /\ immediates > 0
  /\ immediates' = immediates - 1
  /\ \E spawnOk \in BOOLEAN :
       /\ ~spawnOk => /\ faults < MaxFaults
                      /\ taskQueue # <<>>
                      /\ FirstIdle(workers) = 0
                      /\ MayCreate(workers, maxWorkers)
       /\ LET P == processNextTask(PoolState, maxWorkers, spawnOk)
          IN  /\ SetPool(P)
              /\ processCrashed' = P.threw
              /\ faults' = IF spawnOk THEN faults ELSE faults + 1
  /\ UNCHANGED <<maxWorkers, nextBatch, shutdown>>
  /\ UNCHANGED linkVars
  /\ UNCHANGED codecVars
  /\ UNCHANGED requestVars

\* cryptoWorker: the thread handles the oldest task it was sent and posts
\* the WorkerResult, which carries the task's fileName
workerRun(w) ==
  /\ ~processCrashed
  /\ w \in DOMAIN threads
  /\ threads[w].alive
  /\ threads[w].inbox # <<>>
  /\ threads' = [threads EXCEPT
                   ![w].inbox = Tail(@),
                   ![w].outbox = Append(@, [type |-> "message",
                                             fileName |-> Head(threads[w].inbox)])]
  /\ UNCHANGED <<maxWorkers, workers, taskQueue, workerIdCounter, immediates,
                 listener, tasks, nextBatch, faults, processCrashed, shutdown>>
  /\ UNCHANGED linkVars
  /\ UNCHANGED codecVars
  /\ UNCHANGED requestVars

\* a thread dies with an uncaught error while it has work: the Worker object
\* emits 'error' and then 'exit'
workerCrash(w) ==
  /\ ~processCrashed
  /\ w \in DOMAIN threads
  /\ threads[w].alive
  /\ threads[w].inbox # <<>>
  /\ faults < MaxFaults
  /\ faults' = faults + 1
  /\ threads' = [threads EXCEPT
                   ![w].alive = FALSE,
                   ![w].inbox = <<>>,
                   ![w].outbox = @ \o <<[type |-> "error", fileName |-> 0],
                                        [type |-> "exit", fileName |-> 0]>>]
  /\ UNCHANGED <<maxWorkers, workers, taskQueue, workerIdCounter, immediates,
                 listener, tasks, nextBatch, processCrashed, shutdown>>
  /\ UNCHANGED linkVars
  /\ UNCHANGED codecVars
  /\ UNCHANGED requestVars

\* getStats()
getStats ==
  [totalWorkers |-> Len(workers),
   busyWorkers |-> Len(SelectSeq(workers, LAMBDA pw : pw.busy)),
   queuedTasks |-> Len(taskQueue),
   maxWorkers |-> maxWorkers]

\* terminate() after its await: this.workers = []; this.taskQueue = []
clearPool(P) == [P EXCEPT !.workers = <<>>, !.taskQueue = <<>>]

\* the main thread receives the oldest message or event of worker w:
\* 'message' -> messageHandler, 'error' -> errorHandler, 'exit' -> removeWorker.
\* A 'message' without listener is dropped; an 'error' without listener is
\* an unhandled 'error' event.
deliver(w) ==
  /\ ~processCrashed
  /\ w \in DOMAIN threads
  /\ threads[w].outbox # <<>>
  /\ LET m == Head(threads[w].outbox)
         P == [PoolState EXCEPT !.threads[w].outbox = Tail(@)]
         t == listener[w]
     IN  CASE m.type = "message" ->
                IF t # 0
                THEN /\ SetPool(settle(P, t, "fulfilled", m.fileName, "none"))
                     /\ immediates' = scheduleImmediate(immediates)
                     /\ UNCHANGED <<processCrashed, shutdown>>
                ELSE /\ SetPool(P)
                     /\ UNCHANGED <<immediates, processCrashed, shutdown>>
           [] m.type = "error" ->
                IF t # 0
                THEN /\ SetPool(settle(P, t, "rejected", 0, "worker"))
                     /\ immediates' = scheduleImmediate(immediates)
                     /\ UNCHANGED <<processCrashed, shutdown>>
                ELSE /\ SetPool(P)
                     /\ processCrashed' = TRUE
                     /\ UNCHANGED <<immediates, shutdown>>
           [] m.type = "exit" ->
                \* the exit handler, then the resolution of the terminate()
                \* promise of this unit; the last one resumes terminate
                LET Q == [P EXCEPT !.workers = removeWorker(@, w)]
                    awaited == shutdown.awaited \ {w}
                IN  IF shutdown.state = "awaiting" /\ w \in shutdown.awaited
                       /\ awaited = {}
                    THEN /\ SetPool(clearPool(Q))
                         /\ shutdown' = [shutdown EXCEPT !.state = "done",
                                                         !.awaited = {}]
                         /\ UNCHANGED <<immediates, processCrashed>>
                    ELSE /\ SetPool(Q)
                         /\ shutdown' = [shutdown EXCEPT !.awaited = awaited]
                         /\ UNCHANGED <<immediates, processCrashed>>
  /\ UNCHANGED <<maxWorkers, nextBatch, faults>>
  /\ UNCHANGED linkVars
  /\ UNCHANGED codecVars
  /\ UNCHANGED requestVars

\* the 30 s timer of a dispatched task fires before the task is settled
taskTimeout(t) ==
  /\ ~processCrashed
  /\ tasks[t].exec = "running"
  \* terminate() clears no timer: the timers of the tasks it leaves on the
  \* stopped units do fire
  /\ faults < MaxFaults \/ shutdown.state # "none"
  /\ faults' = faults + 1
  /\ SetPool(settle(PoolState, t, "rejected", 0, "timeout"))
  /\ immediates' = scheduleImmediate(immediates)
  /\ UNCHANGED <<maxWorkers, nextBatch, processCrashed, shutdown>>
  /\ UNCHANGED linkVars
  /\ UNCHANGED codecVars
  /\ UNCHANGED requestVars

\* terminate(): worker.terminate() on every unit of the registry stops its
\* thread (the work it holds is lost, 'exit' follows without 'error'; the
\* replies already on their way may or may not still arrive); the call then
\* awaits the exits. With an empty registry it resumes at once.
NoShutdown == [state |-> "none", awaited |-> {}, waiting |-> {}]
terminateThread(th, drained) ==
  IF th.alive
  THEN [alive |-> FALSE, inbox |-> <<>>,
        outbox |-> (IF drained THEN th.outbox ELSE <<>>)
                   \o <<[type |-> "exit", fileName |-> 0]>>]
  ELSE th
terminate ==
  /\ ~processCrashed
  /\ shutdown.state = "none"
  /\ \E drained \in BOOLEAN :
       LET registered == {workers[i].id : i \in 1 .. Len(workers)}
           P == [PoolState EXCEPT
                   !.threads = [w \in DOMAIN threads |->
                                  IF w \in registered
                                  THEN terminateThread(threads[w], drained)
                                  ELSE threads[w]]]
           waiting == {t \in TaskIds : tasks[t].promise = "pending"}
       IN  IF registered = {}
           THEN /\ SetPool(clearPool(P))
                /\ shutdown' = [state |-> "done", awaited |-> {}, waiting |-> waiting]
           ELSE /\ SetPool(P)
                /\ shutdown' = [state |-> "awaiting", awaited |-> registered,
                                waiting |-> waiting]
  /\ UNCHANGED <<maxWorkers, immediates, nextBatch, faults, processCrashed>>
  /\ UNCHANGED linkVars
  /\ UNCHANGED codecVars
  /\ UNCHANGED requestVars

\* new WorkerPool() on a machine with cpuCount CPUs
poolCreated(cpuCount, production) ==
  /\ maxWorkers = WorkerPoolMaxWorkers(0, cpuCount, production)
  /\ workers = <<>>
  /\ taskQueue = <<>>
  /\ workerIdCounter = 0
  /\ immediates = 0
  /\ threads = [w \in {} |-> NewThread]
  /\ listener = [w \in {} |-> 0]
  /\ tasks = [t \in TaskIds |-> NewTask]
  /\ nextBatch = 0
  /\ faults = 0
  /\ processCrashed = FALSE
  /\ shutdown = NoShutdown

InitPool ==
  \E cpuCount \in 0 .. MaxCpu, production \in BOOLEAN : poolCreated(cpuCount, production)

NextPool ==
  \/ \E n \in 1 .. MaxTasks : executeBatch(n)
  \/ deferredProcessNextTask
  \/ \E w \in DOMAIN threads : workerRun(w)
  \/ \E w \in DOMAIN threads : workerCrash(w)
  \/ \E w \in DOMAIN threads : deliver(w)
  \/ \E t \in TaskIds : taskTimeout(t)


(***************************************************************************)
(* CryptoService: the pack codec                                           *)
(***************************************************************************)
KEY_LENGTH == 32
EXCLUDED_FILES == {"manifest.json", "pack_icon.png", "bug_pack_icon.png"}
HeaderSize == 256
ContentIdOffset == 16
MinCipherSize == 32

\* A file name is the sequence fileName.split('/'): a directory entry ends
\* with '/', that is with an empty last segment.
\* /\/$/.test(entry.fileName)
isDirectory(fileName) == fileName[Len(fileName)] = ""
\* fileName.startsWith('subpacks/')
isSubPackFile(fileName) == Len(fileName) >= 2 /\ fileName[1] = "subpacks"
\* str.split(target).length - 1
calculateCharCount(fileName) == Len(fileName) - 1
isSubPackRoot(fileName) ==
  /\ isDirectory(fileName)
  /\ isSubPackFile(fileName)
  /\ calculateCharCount(fileName) = 2
\* fileName.startsWith(subPackPath), subPackPath a directory name
startsWith(fileName, subPackPath) ==
  /\ Len(fileName) >= Len(subPackPath)
  /\ \A i \in 1 .. (Len(subPackPath) - 1) : fileName[i] = subPackPath[i]
\* fileName.substring(subPackPath.length)
substringAfterMut(fileName, subPackPath) ==
  fileName
substringAfter(fileName, subPackPath) ==
  SubSeq(fileName, Len(subPackPath), Len(fileName))
\* subPackPath + 'contents.json'
inDirectory(subPackPath, name) ==
  SubSeq(subPackPath, 1, Len(subPackPath) - 1) \o <<name>>
\* number of characters of the file name
RECURSIVE pathLength(_)
pathLength(fileName) ==
  IF fileName = <<>> THEN 0 - 1
  ELSE Len(Head(fileName)) + 1 + pathLength(Tail(fileName))

\* keys: the user's keys and the keys generateRandomKey() draws (32 chars)
UserKey(name, length) == [len |-> length, call |-> 0, name |-> <<name>>]
generateRandomKey(call, fileName) == [len |-> KEY_LENGTH, call |-> call, name |-> fileName]
NullKey == [len |-> 0, call |-> 0, name |-> <<>>]

\* aes-256-cfb8 with iv = key[0..15]: the ciphertext has the length of the
\* plaintext; deciphering with another key, or something that is no
\* ciphertext, yields bytes that are not the plaintext
cipherOk(key) == key.len = KEY_LENGTH
aesEncrypt(data, key) == [kind |-> "cipher", len |-> data.len, of |-> data, key |-> key]
aesDecrypt(data, key) ==
  IF data.kind = "cipher" /\ data.key = key THEN data.of
  ELSE [kind |-> "garbage", len |-> data.len, of |-> data, key |-> key]

\* JSON.stringify({content: entries}) / JSON.parse
entryJsonLength(ce) ==
  18 + pathLength(ce.path) + (IF ce.key = NullKey THEN 4 ELSE ce.key.len + 2)
RECURSIVE entriesJsonLength(_)
entriesJsonLength(ces) ==
  IF ces = <<>> THEN 0
  ELSE entryJsonLength(Head(ces)) + (IF Len(ces) > 1 THEN 1 ELSE 0)
       + entriesJsonLength(Tail(ces))
jsonStringify(ces) ==
  [kind |-> "json", len |-> 14 + entriesJsonLength(ces), content |-> ces]
jsonParses(data) == data.kind = "json"

\* generateContentsJson: 0x100 header bytes, then the encrypted JSON
\* contentId is the sequence of its UTF-8 bytes. The header is the buffer of
\* 0x100 zero bytes after VERSION and MAGIC were copied in, the length was
\* stored in the byte at 0x10 (a byte store keeps the value modulo 256) and
\* the bytes were copied behind it (copy stops at the end of the buffer)
VERSION == <<0, 0, 0, 0>>
MAGIC == <<252, 185, 207, 155>>
contentsHeader(contentId) ==
  [i \in 1 .. HeaderSize |->
     IF i <= Len(VERSION) THEN VERSION[i]
     ELSE IF i <= Len(VERSION) + Len(MAGIC) THEN MAGIC[i - Len(VERSION)]
     ELSE IF i <= ContentIdOffset THEN 0
     ELSE IF i = ContentIdOffset + 1 THEN Len(contentId) % 256
     ELSE IF i - (ContentIdOffset + 1) <= Len(contentId)
     THEN contentId[i - (ContentIdOffset + 1)]
     ELSE 0]
generateContentsJson(name, contentId, key, ces) ==
  [fileName |-> name,
   data |-> [kind |-> "contents",
             len |-> HeaderSize + jsonStringify(ces).len,
             header |-> contentsHeader(contentId),
             body |-> aesEncrypt(jsonStringify(ces), key)]]

\* entries.find(e => e.fileName === fileName): index of the first match, 0
findEntry(entries, fileName) ==
  IF \E i \in 1 .. Len(entries) : entries[i].fileName = fileName
  THEN CHOOSE i \in 1 .. Len(entries) :
         /\ entries[i].fileName = fileName
         /\ \A j \in 1 .. (i - 1) : entries[j].fileName # fileName
  ELSE 0

\* findPackUUIDFromEntries: throws when manifest.json is absent, when the
\* cleaned text does not parse and when the manifest has no header; returns
\* manifest.header.uuid unchecked otherwise, undefined when the header has no
\* uuid
NoUuid == [threw |-> TRUE, defined |-> FALSE, bytes |-> <<>>]
findPackUUIDFromEntries(entries) ==
  IF findEntry(entries, <<"manifest.json">>) = 0 THEN NoUuid
  ELSE LET manifest == entries[findEntry(entries, <<"manifest.json">>)].data
       IN  IF ~manifest.hasHeader THEN NoUuid
           ELSE [threw |-> FALSE, defined |-> manifest.hasUuid,
                 bytes |-> manifest.uuid]

\* encryptFile for the files of a sub pack, in entry order
RECURSIVE encryptSubPackFiles(_, _, _)
encryptSubPackFiles(entries, subPackPath, call) ==
  IF entries = <<>> THEN <<>>
  ELSE LET e == Head(entries)
           rest == encryptSubPackFiles(Tail(entries), subPackPath, call)
       IN  IF isDirectory(e.fileName) \/ ~startsWith(e.fileName, subPackPath)
           THEN rest
           ELSE <<[fileName |-> e.fileName,
                   data |-> aesEncrypt(e.data, generateRandomKey(call, e.fileName))]>>
                \o rest
RECURSIVE subPackContentEntries(_, _, _)
subPackContentEntries(entries, subPackPath, call) ==
  IF entries = <<>> THEN <<>>
  ELSE LET e == Head(entries)
           rest == subPackContentEntries(Tail(entries), subPackPath, call)
       IN  IF isDirectory(e.fileName) \/ ~startsWith(e.fileName, subPackPath)
           THEN rest
           ELSE <<[path |-> substringAfter(e.fileName, subPackPath),
                   key |-> generateRandomKey(call, e.fileName)]>> \o rest

\* encryptSubPack: the entries it adds to the output zip
encryptSubPack(entries, subPackPath, key, contentId, call) ==
  encryptSubPackFiles(entries, subPackPath, call)
  \o <<generateContentsJson(inDirectory(subPackPath, "contents.json"), contentId,
                            key, subPackContentEntries(entries, subPackPath, call))>>

\* encryptFile reads the entry with getZipEntryData, which enumerates the
\* zip file a second time; rereadOk tells whether that enumeration delivers
\* the entries again or runs into its 30 s timeout
subPackReadFails(entries, subPackPath, rereadOk) ==
  /\ ~rereadOk
  /\ \E i \in 1 .. Len(entries) :
       ~isDirectory(entries[i].fileName) /\ startsWith(entries[i].fileName, subPackPath)

\* the directory loop of encrypt0: empty directories and sub packs
RECURSIVE encryptDirectories(_, _, _, _, _)
encryptDirectories(dirs, entries, key, contentId, call) ==
  IF dirs = <<>> THEN <<>>
  ELSE LET d == Head(dirs)
       IN  <<[fileName |-> d.fileName, data |-> [kind |-> "dir", len |-> 0]]>>
           \o (IF isSubPackRoot(d.fileName)
               THEN encryptSubPack(entries, d.fileName, key, contentId, call)
               ELSE <<>>)
           \o encryptDirectories(Tail(dirs), entries, key, contentId, call)

\* the file loop of encrypt0
isExcluded(fileName) == Len(fileName) = 1 /\ fileName[1] \in EXCLUDED_FILES
topLevelFiles(entries) ==
  SelectSeq(entries, LAMBDA e : ~isDirectory(e.fileName) /\ ~isSubPackFile(e.fileName))
excludedCopies(entries) ==
  SelectSeq(topLevelFiles(entries), LAMBDA e : isExcluded(e.fileName))
encryptTasks(entries, call) ==
  [i \in 1 .. Len(SelectSeq(topLevelFiles(entries), LAMBDA e : ~isExcluded(e.fileName))) |->
     LET e == SelectSeq(topLevelFiles(entries), LAMBDA x : ~isExcluded(x.fileName))[i]
     IN  [fileName |-> e.fileName, data |-> e.data,
          key |-> generateRandomKey(call, e.fileName)]]

\* cryptoWorker encryptData / decryptData and the WorkerResult
workerResult(type, task) ==
  IF ~cipherOk(task.key)
  THEN [success |-> FALSE, data |-> [kind |-> "none", len |-> 0], fileName |-> task.fileName]
  ELSE [success |-> TRUE,
        data |-> IF type = "encrypt" THEN aesEncrypt(task.data, task.key)
                 ELSE aesDecrypt(task.data, task.key),
        fileName |-> task.fileName]
\* encryptTasksSynchronously / decryptTasksSynchronously
syncResult(type, task) ==
  IF ~cipherOk(task.key)
  THEN [success |-> FALSE, data |-> [kind |-> "none", len |-> 0], fileName |-> task.fileName]
  ELSE [success |-> TRUE,
        data |-> IF type = "encrypt" THEN aesEncrypt(task.data, task.key)
                 ELSE aesDecrypt(task.data, task.key),
        fileName |-> task.fileName]
\* what the pool does with the batch: getWorkerPool() throws; executeBatch
\* fulfils, rejects (worker error, timeout, failed createWorker) or never
\* settles (a pool with maxWorkers = 0 dispatches nothing and arms no timer);
\* "stale": it fulfils, and the first task was resolved by the late reply
\* of a task of another request that had timed out on the same unit
PoolOutcomes == {"fulfilled", "rejected", "pending", "initFailed", "stale"}
\* Promise.all over no promises is fulfilled at once
poolUse(taskList, poolOutcome) ==
  IF poolOutcome \in {"rejected", "pending", "stale"} /\ Len(taskList) = 0
  THEN "fulfilled"
  ELSE poolOutcome
\* the task of another request whose reply arrives late
ForeignTask ==
  [fileName |-> <<"foreign.txt">>,
   data |-> [kind |-> "plain", len |-> 7, name |-> <<"foreign.txt">>],
   key |-> generateRandomKey(0, <<"foreign.txt">>)]
\* results of executeBatch, or of the sequential fallback when it rejects
batchResultsOf(type, taskList, poolOutcome) ==
  [i \in 1 .. Len(taskList) |->
     IF poolUse(taskList, poolOutcome) = "rejected" THEN syncResult(type, taskList[i])
     ELSE IF poolUse(taskList, poolOutcome) = "stale" /\ i = 1
     THEN workerResult(type, ForeignTask)
     ELSE workerResult(type, taskList[i])]
\* the results are, index by index, what the workers return for the tasks
alignedWithWorkers(type, taskList, results) ==
  /\ Len(results) = Len(taskList)
  /\ \A i \in 1 .. Len(taskList) : results[i] = workerResult(type, taskList[i])

\* the result loop: does it throw
resultsFailMut(results) == FALSE
resultsFail(results) == \E i \in 1 .. Len(results) : ~results[i].success
\* the entries the result loop adds: the data of results[i] under tasks[i]
resultEntries(taskList, results) ==
  [i \in 1 .. Len(results) |-> [fileName |-> taskList[i].fileName, data |-> results[i].data]]

\* outcome of encrypt0 / decrypt0 up to the point where the output zip is
\* complete in memory: either an exception (step names where) or the entries
\* pool: how the pool was used ("unused" before the batch); aligned: the
\* results the result loop saw are those of the workers; missing: the
\* decrypted Content lists a keyed path that is not in the zip
Thrown(step, submitted, pool, aligned) ==
  [threw |-> TRUE, step |-> step, submitted |-> submitted, pool |-> pool,
   fellBack |-> pool = "rejected", aligned |-> aligned, missing |-> FALSE,
   error |-> "none", out |-> <<>>]
Built(out, submitted, pool, aligned) ==
  [threw |-> FALSE, step |-> "done", submitted |-> submitted, pool |-> pool,
   fellBack |-> pool = "rejected", aligned |-> aligned, missing |-> FALSE,
   error |-> "none", out |-> out]
\* await executeBatch(...) never returns
Hanging(submitted) ==
  [threw |-> FALSE, step |-> "batch", submitted |-> submitted, pool |-> "pending",
   fellBack |-> FALSE, aligned |-> FALSE, missing |-> FALSE,
   error |-> "none", out |-> <<>>]

\* checkArgs: key length, input exists, input # output
checkArgsMut(inputExists, inputPath, outputPath, key) ==
  inputExists /\ inputPath # outputPath
checkArgs(inputExists, inputPath, outputPath, key) ==
  /\ key.len = KEY_LENGTH
  /\ inputExists
  /\ inputPath # outputPath

\* encrypt0 on the entries of the opened zip file
encrypt0(entries, key, call, rereadOk, poolOutcome) ==
  LET uuid == findPackUUIDFromEntries(entries)
      dirs == SelectSeq(entries, LAMBDA e : isDirectory(e.fileName))
      roots == SelectSeq(dirs, LAMBDA e : isSubPackRoot(e.fileName))
      taskList == encryptTasks(entries, call)
      pool == poolUse(taskList, poolOutcome)
      results == batchResultsOf("encrypt", taskList, poolOutcome)
      aligned == alignedWithWorkers("encrypt", taskList, results)
      contentEntries ==
        [i \in 1 .. Len(excludedCopies(entries)) |->
           [path |-> excludedCopies(entries)[i].fileName, key |-> NullKey]]
        \o [i \in 1 .. Len(taskList) |->
              [path |-> taskList[i].fileName, key |-> taskList[i].key]]
  IN  IF entries = <<>> THEN [Thrown("entries", 0, "unused", FALSE) EXCEPT !.error = "timeout"]
      ELSE IF uuid.threw
      THEN [Thrown("manifest", 0, "unused", FALSE) EXCEPT !.error = "format"]
      ELSE IF roots # <<>> /\ subPackReadFails(entries, roots[1].fileName, rereadOk)
      THEN Thrown("subpack", 0, "unused", FALSE)
      \* Buffer.from(undefined, 'utf8') in the generateContentsJson of the
      \* first sub pack
      ELSE IF roots # <<>> /\ ~uuid.defined
      THEN [Thrown("header", 0, "unused", FALSE) EXCEPT !.error = "type"]
      ELSE IF \E i \in 1 .. Len(roots) :
                subPackReadFails(entries, roots[i].fileName, rereadOk)
      THEN Thrown("subpack", 0, "unused", FALSE)
      ELSE IF pool = "initFailed" THEN Thrown("pool", 0, pool, FALSE)
      ELSE IF pool = "pending" THEN Hanging(Len(taskList))
      ELSE IF resultsFail(results)
      THEN Thrown("task", Len(taskList), pool, aligned)
      \* the same in the generateContentsJson of the pack, after the batch
      ELSE IF ~uuid.defined
      THEN [Thrown("header", Len(taskList), pool, aligned) EXCEPT !.error = "type"]
      ELSE Built(encryptDirectories(dirs, entries, key, uuid.bytes, call)
                 \o excludedCopies(entries)
                 \o resultEntries(taskList, results)
                 \o <<generateContentsJson(<<"contents.json">>, uuid.bytes, key,
                                           contentEntries)>>,
                 Len(taskList), pool, aligned)

\* decryptContentsJsonData: the Content, or content = "" for the exception
NoContent(error) == [ok |-> FALSE, content |-> <<>>, error |-> error]
\* "too small, not a valid encrypted file" before the cipher is set up; every
\* failure of the cipher or of JSON.parse is rethrown by the catch block
decryptContentsJsonData(data, key) ==
  IF data.len < HeaderSize + MinCipherSize THEN NoContent("format")
  ELSE IF ~cipherOk(key) THEN NoContent("key")
  ELSE LET encryptedData == IF data.kind = "contents" THEN data.body
                            ELSE [kind |-> "slice", len |-> data.len - HeaderSize, of |-> data]
           decryptedData == aesDecrypt(encryptedData, key)
       IN  IF jsonParses(decryptedData)
           THEN [ok |-> TRUE, content |-> decryptedData.content, error |-> "none"]
           ELSE NoContent("key")
\* "Cannot find contents.json, it seems that this file is not encrypted"
decryptContentsJsonFromEntries(entries, subPackPath, key) ==
  IF findEntry(entries, subPackPath) = 0 THEN NoContent("format")
  ELSE decryptContentsJsonData(entries[findEntry(entries, subPackPath)].data, key)

\* the loop over content.content: entries with a key whose zip entry exists
decryptTasks(entries, content) ==
  [i \in 1 .. Len(SelectSeq(content, LAMBDA ce :
                     ce.key # NullKey /\ findEntry(entries, ce.path) # 0)) |->
     LET ce == SelectSeq(content, LAMBDA x :
                 x.key # NullKey /\ findEntry(entries, x.path) # 0)[i]
     IN  [fileName |-> ce.path, data |-> entries[findEntry(entries, ce.path)].data,
          key |-> ce.key]]

\* the copy loop over EXCLUDED_FILES, in the order of the array
ExcludedOrder == <<"manifest.json", "pack_icon.png", "bug_pack_icon.png">>
RECURSIVE copyExcluded(_, _)
copyExcluded(entries, names) ==
  IF names = <<>> THEN <<>>
  ELSE (IF findEntry(entries, <<Head(names)>>) = 0 THEN <<>>
        ELSE <<[fileName |-> <<Head(names)>>,
                data |-> entries[findEntry(entries, <<Head(names)>>)].data]>>)
       \o copyExcluded(entries, Tail(names))

\* JSON.stringify(content, null, 2)
jsonStringifyPretty(ces) ==
  [kind |-> "json", len |-> 18 + entriesJsonLength(ces) + 16 * Len(ces), content |-> ces]

\* decrypt0 on the entries of the opened zip file
\* a Content entry with a key whose path is not an entry of the zip
hasMissingEntry(entries, content) ==
  \E i \in 1 .. Len(content) :
    content[i].key # NullKey /\ findEntry(entries, content[i].path) = 0
\* if (preserveContentsJson && content): the decrypted manifest, indented, is
\* added as contents.json
preservedContentsJsonMut(preserveContentsJson, content) ==
  <<[fileName |-> <<"contents.json">>, data |-> jsonStringifyPretty(content)]>>
preservedContentsJson(preserveContentsJson, content) ==
  IF preserveContentsJson
  THEN <<[fileName |-> <<"contents.json">>, data |-> jsonStringifyPretty(content)]>>
  ELSE <<>>
decrypt0(allEntries, key, preserveContentsJson, poolOutcome) ==
  LET parsed == decryptContentsJsonFromEntries(allEntries, <<"contents.json">>, key)
      taskList == decryptTasks(allEntries, parsed.content)
      pool == poolUse(taskList, poolOutcome)
      results == batchResultsOf("decrypt", taskList, poolOutcome)
      aligned == alignedWithWorkers("decrypt", taskList, results)
      missing == hasMissingEntry(allEntries, parsed.content)
  IN  IF allEntries = <<>> THEN [Thrown("entries", 0, "unused", FALSE) EXCEPT !.error = "timeout"]
      ELSE IF ~parsed.ok
      THEN [Thrown("contents", 0, "unused", FALSE) EXCEPT !.error = parsed.error]
      ELSE IF pool = "initFailed"
      THEN [Thrown("pool", 0, pool, FALSE) EXCEPT !.missing = missing]
      ELSE IF pool = "pending"
      THEN [Hanging(Len(taskList)) EXCEPT !.missing = missing]
      ELSE IF resultsFail(results)
      THEN [Thrown("task", Len(taskList), pool, aligned) EXCEPT !.missing = missing]
      ELSE [Built(resultEntries(taskList, results)
                 \o copyExcluded(allEntries, ExcludedOrder)
                 \o preservedContentsJson(preserveContentsJson, parsed.content),
                 Len(taskList), pool, aligned) EXCEPT !.missing = missing]

\* a file on disk: a zip archive, complete or cut short
ZipFile(entries) == [complete |-> TRUE, entries |-> entries]
PartialFile == [complete |-> FALSE, entries |-> <<>>]
WriteOutcomes == {"close", "openError", "writeError"}
\* outputZip.outputStream.pipe(fs.createWriteStream(outputPath)): 'close'
\* resolves; 'error' rejects, before the file was created or after
writeOutput(files, outputPath, out, writeOutcome) ==
  IF writeOutcome = "close" THEN [p \in DOMAIN files \cup {outputPath} |->
                                    IF p = outputPath THEN ZipFile(out) ELSE files[p]]
  ELSE IF writeOutcome = "writeError"
  THEN [p \in DOMAIN files \cup {outputPath} |->
          IF p = outputPath THEN PartialFile ELSE files[p]]
  ELSE files

\* what a call of encryptPack / decryptPack did, for the properties
NoCodecCall ==
  [status |-> "none", step |-> "none", opened |-> FALSE, submitted |-> 0,
   pool |-> "unused", fellBack |-> FALSE, aligned |-> FALSE, missing |-> FALSE,
   wrote |-> FALSE, key |-> NullKey, error |-> "none", preserve |-> FALSE,
   inputPath |-> "", outputPath |-> "", outputBefore |-> FALSE]
CodecCall(status, step, opened, r, wrote, key, inputPath, outputPath, files) ==
  [status |-> status, step |-> step, opened |-> opened, submitted |-> r.submitted,
   pool |-> r.pool, fellBack |-> r.fellBack, aligned |-> r.aligned,
   missing |-> r.missing, wrote |-> wrote, key |-> key, error |-> r.error,
   preserve |-> FALSE, inputPath |-> inputPath, outputPath |-> outputPath,
   outputBefore |-> outputPath \in DOMAIN files]
NothingDone == Thrown("none", 0, "unused", FALSE)

\* the body shared by encryptPack and decryptPack: checkArgs, yauzl.open,
\* encrypt0 / decrypt0, the output stream; r is the outcome of encrypt0 /
\* decrypt0 on the entries of the input
runPack(files, inputPath, outputPath, key, r, writeOutcome) ==
  IF ~checkArgs(inputPath \in DOMAIN files, inputPath, outputPath, key)
  THEN <<CodecCall("rejected", "args", FALSE, NothingDone, FALSE, key,
                   inputPath, outputPath, files), files>>
  ELSE IF ~files[inputPath].complete
  THEN <<CodecCall("rejected", "open", FALSE, NothingDone, FALSE, key,
                   inputPath, outputPath, files), files>>
  ELSE IF r.threw
  THEN <<CodecCall("rejected", r.step, TRUE, r, FALSE, key,
                   inputPath, outputPath, files), files>>
  ELSE IF r.step = "batch"
  THEN <<CodecCall("pending", r.step, TRUE, r, FALSE, key,
                   inputPath, outputPath, files), files>>
  ELSE IF writeOutcome = "close"
  THEN <<CodecCall("ok", "done", TRUE, r, TRUE, key, inputPath, outputPath, files),
         writeOutput(files, outputPath, r.out, writeOutcome)>>
  ELSE <<CodecCall("rejected", "write", TRUE, r, writeOutcome = "writeError", key,
                   inputPath, outputPath, files),
         writeOutput(files, outputPath, r.out, writeOutcome)>>
entriesOf(files, path) ==
  IF path \in DOMAIN files THEN files[path].entries ELSE <<>>

UserKeys == {UserKey("K1", KEY_LENGTH), UserKey("K2", KEY_LENGTH), UserKey("K3", KEY_LENGTH - 1)}

encryptPack(inputPath, outputPath, key, rereadOk, poolOutcome, writeOutcome) ==
  /\ encCall.status = "none"
  /\ LET r == encrypt0(entriesOf(packs, inputPath), key, 1, rereadOk, poolOutcome)
         done == runPack(packs, inputPath, outputPath, key, r, writeOutcome)
     IN  /\ encCall' = done[1]
         /\ packs' = done[2]
  /\ UNCHANGED decCall
  /\ UNCHANGED <<linkVars, poolVars, requestVars>>

decryptPack(inputPath, outputPath, key, preserveContentsJson, poolOutcome, writeOutcome) ==
  /\ decCall.status = "none"
  /\ LET r == decrypt0(entriesOf(packs, inputPath), key, preserveContentsJson, poolOutcome)
         done == runPack(packs, inputPath, outputPath, key, r, writeOutcome)
     IN  /\ decCall' = [done[1] EXCEPT !.preserve = preserveContentsJson]
         /\ packs' = done[2]
  /\ UNCHANGED encCall
  /\ UNCHANGED <<linkVars, poolVars, requestVars>>

\* the packs the user may upload
PlainNames == <<"a.txt", "c.txt", "d.txt">>
SubPackNames == <<"foo", "bar", "baz">>
PlainData(name) == [kind |-> "plain", len |-> 5, name |-> name]
\* manifests: with the uuid "u1", with a uuid of 0x100 bytes, with a header
\* that has no uuid, without header (or not JSON), or no manifest.json at all
IdU1 == <<117, 49>>
IdU2 == <<117, 50>>
LongId == [i \in 1 .. HeaderSize |-> 97]
ManifestData(hasHeader, hasUuid, uuid) ==
  [kind |-> "manifest", len |-> 40, hasHeader |-> hasHeader,
   hasUuid |-> hasUuid, uuid |-> uuid]
ManifestKinds == {"valid", "long", "noUuid", "invalid", "absent"}
manifestEntries(m) ==
  IF m = "absent" THEN <<>>
  ELSE <<[fileName |-> <<"manifest.json">>,
          data |-> IF m = "valid" THEN ManifestData(TRUE, TRUE, IdU1)
                   ELSE IF m = "long" THEN ManifestData(TRUE, TRUE, LongId)
                   ELSE IF m = "noUuid" THEN ManifestData(TRUE, FALSE, <<>>)
                   ELSE ManifestData(FALSE, FALSE, <<>>)]>>
plainEntries(present) ==
  [i \in 1 .. Len(SelectSeq(SubSeq(PlainNames, 1, MaxPlainFiles), LAMBDA n : n \in present)) |->
     LET n == SelectSeq(SubSeq(PlainNames, 1, MaxPlainFiles), LAMBDA x : x \in present)[i]
     IN  [fileName |-> <<n>>, data |-> PlainData(<<n>>)]]
\* a contents.json already in the upload: a short plain file, or one made for
\* key K1 that names a.txt with a 31 character key, or a file not in the zip,
\* or contents.json itself
ContentsKinds == {"absent", "small", "badKey", "ghost", "selfListed"}
contentsEntries(c) ==
  IF c = "absent" THEN <<>>
  ELSE IF c = "small"
  THEN <<[fileName |-> <<"contents.json">>, data |-> [kind |-> "plain", len |-> 10, name |-> <<"contents.json">>]]>>
  ELSE IF c = "badKey"
  THEN <<generateContentsJson(<<"contents.json">>, IdU1, UserKey("K1", KEY_LENGTH),
           <<[path |-> <<"manifest.json">>, key |-> NullKey],
             [path |-> <<"a.txt">>, key |-> UserKey("E1", KEY_LENGTH - 1)]>>)>>
  ELSE IF c = "ghost"
  THEN <<generateContentsJson(<<"contents.json">>, IdU1, UserKey("K1", KEY_LENGTH),
           <<[path |-> <<"manifest.json">>, key |-> NullKey],
             [path |-> <<"ghost.txt">>, key |-> UserKey("E2", KEY_LENGTH)]>>)>>
  ELSE <<generateContentsJson(<<"contents.json">>, IdU1, UserKey("K1", KEY_LENGTH),
           <<[path |-> <<"manifest.json">>, key |-> NullKey],
             [path |-> <<"contents.json">>, key |-> UserKey("E3", KEY_LENGTH)]>>)>>
SubPackKinds == {"none", "filesOnly", "withDir"}
subPackEntries(name, k) ==
  IF k = "none" THEN <<>>
  ELSE (IF k = "withDir"
        THEN <<[fileName |-> <<"subpacks", name, "">>, data |-> [kind |-> "dir", len |-> 0]]>>
        ELSE <<>>)
       \o <<[fileName |-> <<"subpacks", name, "b.txt">>,
             data |-> PlainData(<<"subpacks", name, "b.txt">>)],
            [fileName |-> <<"subpacks", name, "manifest.json">>,
             data |-> ManifestData(TRUE, TRUE, IdU2)]>>
RECURSIVE allSubPackEntries(_, _)
allSubPackEntries(kinds, i) ==
  IF i > MaxSubPacks THEN <<>>
  ELSE subPackEntries(SubPackNames[i], kinds[i]) \o allSubPackEntries(kinds, i + 1)
Archive(m, present, c, kinds) ==
  manifestEntries(m) \o plainEntries(present) \o contentsEntries(c)
  \o allSubPackEntries(kinds, 1)
DefaultPack == Archive("valid", {}, "absent", [i \in 1 .. MaxSubPacks |-> "none"])

InitCodec(archive) ==
  /\ packs = [p \in {"in"} |-> ZipFile(archive)]
  /\ encCall = NoCodecCall
  /\ decCall = NoCodecCall

NextCodec ==
  \/ \E outputPath \in {"enc", "in"}, key \in UserKeys, rereadOk \in BOOLEAN,
        poolOutcome \in PoolOutcomes, writeOutcome \in WriteOutcomes :
       encryptPack("in", outputPath, key, rereadOk, poolOutcome, writeOutcome)
  \/ \E inputPath \in {"in", "enc"}, sameOutput \in BOOLEAN, key \in UserKeys,
        preserveContentsJson \in BOOLEAN, poolOutcome \in PoolOutcomes,
        writeOutcome \in WriteOutcomes :
       decryptPack(inputPath, IF sameOutput THEN inputPath ELSE "dec", key,
                   preserveContentsJson, poolOutcome, writeOutcome)

(***************************************************************************)
(* EncryptController / DecryptController                                   *)
(***************************************************************************)
RequestIds == 1 .. MaxRequests

\* a file multer stored below uploads/ for field `field` of request n
uploadPath(n, field) == [dir |-> "uploads", name |-> <<n, field>>]
\* path.join(process.cwd(), 'temp', `${kind}_${timestamp}...`)
tempPath(n, kind) == [dir |-> "temp", name |-> <<n, kind>>]

\* cleanupFile: unlinkSync when the file exists; an exception is logged
cleanupFile(files, filePath, unlinkOk) ==
  IF filePath \in files /\ unlinkOk THEN files \ {filePath} ELSE files

\* cleanupFiles: cleanupFile for each path; `failing` are the paths whose
\* unlinkSync throws
cleanupFiles(files, filePaths, failing) == files \ (filePaths \ failing)

\* what cryptoService.encryptPack / decryptPack does to the output path:
\* resolves with the archive written, rejects before the output stream is
\* opened, rejects with a partly written file, or never settles
CryptoOutcomes == {"ok", "rejected", "partial", "pending"}
afterCrypto(files, outputFile, cryptoOutcome) ==
  IF cryptoOutcome \in {"ok", "partial"} THEN files \cup {outputFile} ELSE files

\* res.status(status).json(...); linkId is the id createDownloadLink drew (0:
\* the request did not get that far)
respond(n, kind, status, linkId) ==
  requests' = Append(requests, [id |-> n, kind |-> kind, status |-> status,
                                linkId |-> linkId])

\* EncryptController.encryptPack
encryptRequest(hasFile, cryptoOutcome, keyWritten, zipOk, created, failing) ==
  LET n == Len(requests) + 1
      inputFile == uploadPath(n, "file")
      outputFile == tempPath(n, "encrypted")
      keyFile == tempPath(n, "key")
      uploaded == IF hasFile THEN staging \cup {inputFile} ELSE staging
      encrypted == afterCrypto(uploaded, outputFile, cryptoOutcome)
      cleaned(files) ==
        safeDeleteFile(safeDeleteFile(cleanupFile(files, inputFile,
                                                  inputFile \notin failing),
                                      outputFile, outputFile \notin failing),
                       keyFile, keyFile \notin failing)
  IN  /\ n \in RequestIds
      /\ failing \subseteq {inputFile, outputFile, keyFile}
      /\ IF ~hasFile
         THEN /\ staging' = uploaded
              /\ respond(n, "encrypt", 400, 0)
              /\ UNCHANGED linkVars
         ELSE IF cryptoOutcome = "pending"
         THEN /\ staging' = encrypted
              /\ respond(n, "encrypt", 0, 0)
              /\ UNCHANGED linkVars
         ELSE IF cryptoOutcome # "ok"
         THEN /\ staging' = cleaned(encrypted)
              /\ respond(n, "encrypt", 500, 0)
              /\ UNCHANGED linkVars
         ELSE IF ~keyWritten
         THEN /\ staging' = cleaned(encrypted)
              /\ respond(n, "encrypt", 500, 0)
              /\ UNCHANGED linkVars
         ELSE \E linkId \in LinkIds :
                /\ storeLink(linkId, zipOk, created)
                /\ staging' = cleaned(encrypted \cup {keyFile})
                /\ respond(n, "encrypt", IF zipOk THEN 200 ELSE 500, linkId)
      /\ UNCHANGED <<dateNow, handlers, written>>
      /\ UNCHANGED poolVars
      /\ UNCHANGED codecVars

\* the fields of the decrypt form
DecryptFields == {"encryptedFile", "keyFile"}
\* the lengths of the trimmed key file content the model tries
KeyContentLengths == {KEY_LENGTH - 1, KEY_LENGTH}

\* DecryptController.decryptPack
decryptRequest(fields, keyContentLength, cryptoOutcome, zipOk, created, failing) ==
  LET n == Len(requests) + 1
      uploadedFiles == {uploadPath(n, f) : f \in DecryptFields}
      outputFile == tempPath(n, "decrypted")
      uploaded == staging \cup {uploadPath(n, f) : f \in fields}
      decrypted == afterCrypto(uploaded, outputFile, cryptoOutcome)
      cleaned(files) ==
        safeDeleteFile(cleanupFiles(files, uploadedFiles, failing),
                       outputFile, outputFile \notin failing)
  IN  /\ n \in RequestIds
      /\ fields \subseteq DecryptFields
      /\ failing \subseteq uploadedFiles \cup {outputFile}
      /\ IF fields # DecryptFields
         THEN /\ staging' = uploaded
              /\ respond(n, "decrypt", 400, 0)
              /\ UNCHANGED linkVars
         ELSE IF keyContentLength # 32
         THEN /\ staging' = uploaded
              /\ respond(n, "decrypt", 400, 0)
              /\ UNCHANGED linkVars
         ELSE IF cryptoOutcome = "pending"
         THEN /\ staging' = decrypted
              /\ respond(n, "decrypt", 0, 0)
              /\ UNCHANGED linkVars
         ELSE IF cryptoOutcome # "ok"
         THEN /\ staging' = cleaned(decrypted)
              /\ respond(n, "decrypt", 500, 0)
              /\ UNCHANGED linkVars
         ELSE \E linkId \in LinkIds :
                /\ storeLink(linkId, zipOk, created)
                /\ staging' = cleaned(decrypted)
                /\ respond(n, "decrypt", IF zipOk THEN 200 ELSE 500, linkId)
      /\ UNCHANGED <<dateNow, handlers, written>>
      /\ UNCHANGED poolVars
      /\ UNCHANGED codecVars

\* the controller calls that overlap: each takes its timestamp and derives
\* its staging paths before the first await, writes them when the cipher
\* call has settled and packages and deletes them after createDownloadLink
IdleHandler == [kind |-> "none", pc |-> "idle", timestamp |-> 0, zipped |-> {},
                status |-> 0]
\* const timestamp = Date.now(); outputFile (and keyFile) below temp/
stagingPaths(kind, timestamp) ==
  IF kind = "encrypt"
  THEN {tempPath(timestamp, "encrypted"), tempPath(timestamp, "key")}
  ELSE {tempPath(timestamp, "decrypted")}
\* fs.writeFileSync / the output stream: the file now holds the data of n
writeStaged(files, filePaths, n) ==
  [p \in (DOMAIN files) \cup filePaths |-> IF p \in filePaths THEN n ELSE files[p]]
\* CleanupService.safeDeleteFile on each of the paths
deleteStaged(files, filePaths, failing) ==
  [p \in (DOMAIN files) \ (filePaths \ failing) |-> files[p]]
\* createZipFile: every listed file that exists is added, a missing one is
\* skipped (0)
zipContent(files, filePaths) ==
  {IF p \in DOMAIN files THEN files[p] ELSE 0 : p \in filePaths}

\* the clock of the process advances by a millisecond
millisecondPasses ==
  /\ dateNow < MaxMillis
  /\ dateNow' = dateNow + 1
  /\ UNCHANGED <<staging, requests, handlers, written>>
  /\ UNCHANGED linkVars
  /\ UNCHANGED poolVars
  /\ UNCHANGED codecVars

\* a validated request enters its controller: timestamp, paths, and the
\* cipher call is awaited
beginRequest(n, kind) ==
  /\ handlers[n].pc = "idle"
  /\ handlers' = [handlers EXCEPT ![n] = [IdleHandler EXCEPT
                     !.kind = kind, !.pc = "crypto", !.timestamp = dateNow]]
  /\ UNCHANGED <<staging, requests, dateNow, written>>
  /\ UNCHANGED linkVars
  /\ UNCHANGED poolVars
  /\ UNCHANGED codecVars

\* encryptPack / decryptPack settles. Fulfilled: the output archive is
\* written (and, for encrypt, the key file), createDownloadLink is awaited.
\* Rejected: the catch block deletes the staging paths and answers 500.
cryptoSettled(n, cryptoOk, failing) ==
  LET h == handlers[n]
      filePaths == stagingPaths(h.kind, h.timestamp)
  IN  /\ h.pc = "crypto"
      /\ failing \subseteq filePaths
      /\ IF cryptoOk
         THEN /\ failing = {}
              /\ written' = writeStaged(written, filePaths, n)
              /\ handlers' = [handlers EXCEPT ![n].pc = "packaging"]
         ELSE /\ written' = deleteStaged(written, filePaths, failing)
              /\ handlers' = [handlers EXCEPT ![n].pc = "done", ![n].status = 500]
      /\ UNCHANGED <<staging, requests, dateNow>>
      /\ UNCHANGED linkVars
      /\ UNCHANGED poolVars
      /\ UNCHANGED codecVars

\* createDownloadLink resolves: the download archive holds what the staging
\* paths held, the staged files are deleted, the request is answered
packaged(n, failing) ==
  LET h == handlers[n]
      filePaths == stagingPaths(h.kind, h.timestamp)
  IN  /\ h.pc = "packaging"
      /\ failing \subseteq filePaths
      /\ written' = deleteStaged(written, filePaths, failing)
      /\ handlers' = [handlers EXCEPT ![n].pc = "done", ![n].status = 200,
                                      ![n].zipped = zipContent(written, filePaths)]
      /\ UNCHANGED <<staging, requests, dateNow>>
      /\ UNCHANGED linkVars
      /\ UNCHANGED poolVars
      /\ UNCHANGED codecVars

NextStaging ==
  \/ millisecondPasses
  \/ \E n \in RequestIds, kind \in {"encrypt", "decrypt"} : beginRequest(n, kind)
  \/ \E n \in RequestIds, cryptoOk \in BOOLEAN :
       \E failing \in SUBSET stagingPaths(handlers[n].kind, handlers[n].timestamp) :
         cryptoSettled(n, cryptoOk, failing)
  \/ \E n \in RequestIds :
       \E failing \in SUBSET stagingPaths(handlers[n].kind, handlers[n].timestamp) :
         packaged(n, failing)

InitRequests ==
  /\ staging = {}
  /\ requests = <<>>
  /\ dateNow = 0
  /\ handlers = [n \in RequestIds |-> IdleHandler]
  /\ written = [p \in {} |-> 0]

NextRequests ==
  \/ \E hasFile, keyWritten, zipOk, created \in BOOLEAN,
        cryptoOutcome \in CryptoOutcomes,
        failing \in SUBSET ({uploadPath(Len(requests) + 1, "file")}
                            \cup {tempPath(Len(requests) + 1, k) :
                                    k \in {"encrypted", "key"}}) :
       encryptRequest(hasFile, cryptoOutcome, keyWritten, zipOk, created, failing)
  \/ \E fields \in SUBSET DecryptFields, keyContentLength \in KeyContentLengths,
        cryptoOutcome \in CryptoOutcomes, zipOk, created \in BOOLEAN,
        failing \in SUBSET ({uploadPath(Len(requests) + 1, f) : f \in DecryptFields}
                            \cup {tempPath(Len(requests) + 1, "decrypted")}) :
       decryptRequest(fields, keyContentLength, cryptoOutcome, zipOk, created, failing)

Init == InitLinks /\ InitPool /\ InitCodec(DefaultPack) /\ InitRequests

SpecPool == Init /\ [][NextPool]_vars

\* the event loop runs every deferred call and delivers every message, and a
\* live thread works off its inbox
WorkerIds == 0 .. (MaxCpu + MaxFaults)
\* the pool with a caller of terminate()
NextShutdown == NextPool \/ terminate
SpecShutdown == Init /\ [][NextShutdown]_vars
\* replies and events are delivered, deferred calls run, and the 30 s timer
\* of a dispatched task fires
SpecShutdownFair ==
  /\ SpecShutdown
  /\ WF_vars(deferredProcessNextTask)
  /\ \A w \in WorkerIds : WF_vars(workerRun(w)) /\ WF_vars(deliver(w))
  /\ \A t \in TaskIds : WF_vars(taskTimeout(t))

SpecPoolFair ==
  /\ Init
  /\ [][NextPool]_vars
  /\ WF_vars(deferredProcessNextTask)
  /\ \A w \in WorkerIds : WF_vars(workerRun(w)) /\ WF_vars(deliver(w))

\* executeBatch: the tasks of the b-th call, in submission order
batchTasks(b) == {t \in TaskIds : tasks[t].batch = b}
\* Promise.all over the promises of the batch
batchState(b) ==
  IF \E t \in batchTasks(b) : tasks[t].promise = "rejected" THEN "rejected"
  ELSE IF \A t \in batchTasks(b) : tasks[t].promise = "fulfilled" THEN "fulfilled"
  ELSE "pending"
\* the results array: element i is what the i-th promise resolved to
batchFirst(b) == CHOOSE t \in batchTasks(b) : \A u \in batchTasks(b) : t <= u
batchResults(b) ==
  [i \in 1 .. Cardinality(batchTasks(b)) |-> tasks[batchFirst(b) + i - 1].result]

\* tasks posted to a thread whose execution on it has not finished
RECURSIVE SumInbox(_)
SumInbox(ws) ==
  IF ws = {} THEN 0
  ELSE LET w == CHOOSE x \in ws : TRUE
       IN  Len(threads[w].inbox) + SumInbox(ws \ {w})
Executing == SumInbox(DOMAIN threads)

(***************************************************************************)
(* C2: at most maxWorkers tasks are posted to a unit and not yet finished, *)
(* in every interleaving of submissions, results, worker errors/exits and  *)
(* timeouts.                                                               *)
(***************************************************************************)
C2_PoolBound == Executing <= maxWorkers

(***************************************************************************)
(* C3: when no task times out (and no unit fails), every submitted task is *)
(* eventually settled with a result, under fair scheduling of the event    *)
(* loop and of the worker threads.                                         *)
(***************************************************************************)
C3_AllResolve ==
  \A t \in TaskIds :
    (tasks[t].promise = "pending") ~> (faults > 0 \/ tasks[t].promise = "fulfilled")

(***************************************************************************)
(* C4: a fulfilled executeBatch returns one result per task, element i     *)
(* being the result of tasks[i], for every completion order.               *)
(***************************************************************************)
C4_BatchOrder ==
  \A b \in 1 .. nextBatch :
    batchState(b) = "fulfilled" =>
      /\ Len(batchResults(b)) = Cardinality(batchTasks(b))
      /\ \A i \in 1 .. Len(batchResults(b)) :
            batchResults(b)[i] = batchFirst(b) + i - 1

\* the link store in a process whose pool was built for one worker
InitOfLinks ==
  InitLinks /\ poolCreated(1, TRUE) /\ InitCodec(DefaultPack) /\ InitRequests

SpecLinks == InitOfLinks /\ [][NextLinks]_vars

(***************************************************************************)
(* C1: for every link id, getDownloadFile returns the artifact path at     *)
(* most once, whatever the interleaving of calls, sweeps and deferred      *)
(* deletions; every other call for the id returns null.                    *)
(***************************************************************************)
C1_AtMostOnce ==
  \A linkId \in LinkIds :
    /\ delivered[linkId] <= 1
    /\ (lastResolve.id = linkId /\ lastResolve.result = "path"
          => ~lastResolve.wasDownloaded)

\* a second call for an id that was already delivered has returned null
C1_Witness ==
  \E linkId \in LinkIds :
    /\ delivered[linkId] = 1
    /\ calls[linkId] >= 2
    /\ lastResolve.id = linkId
    /\ lastResolve.result = "null"

(***************************************************************************)
(* C8: a getDownloadFile call made strictly after expiresAt returns null,  *)
(* and after it the record is absent and the artifact file is deleted.     *)
(***************************************************************************)
C8_ExpiredPurged ==
  (lastResolve.hadRecord /\ lastResolve.wasExpired)
    => /\ lastResolve.result = "null"
       /\ lastResolve.id \notin DOMAIN downloads
       /\ zipFilePath(lastResolve.id) \notin tempFiles

\* the codec on any pack of the universe
InitOfCodec ==
  /\ InitLinks /\ poolCreated(1, TRUE) /\ InitRequests
  /\ \E m \in ManifestKinds, present \in SUBSET {PlainNames[i] : i \in 1 .. MaxPlainFiles},
        c \in ContentsKinds, kinds \in [1 .. MaxSubPacks -> SubPackKinds] :
       \* an upload with a contents.json of its own has the plain manifest
       /\ c # "absent" => m = "valid"
       /\ InitCodec(Archive(m, present, c, kinds))

SpecCodec == InitOfCodec /\ [][NextCodec]_vars

\* the upload, and the file entries of an archive
uploaded == packs["in"].entries
hasValidManifest(entries) == ~findPackUUIDFromEntries(entries).threw
hasFile(entries, fileName, data) ==
  \E j \in 1 .. Len(entries) : entries[j].fileName = fileName /\ entries[j].data = data
\* decryptPack succeeded on the output of a successful encryptPack, same key
roundTrip ==
  /\ encCall.status = "ok" /\ encCall.outputPath = "enc"
  /\ decCall.status = "ok" /\ decCall.inputPath = "enc" /\ decCall.outputPath = "dec"
  /\ decCall.key = encCall.key
  /\ "dec" \in DOMAIN packs

(***************************************************************************)
(* C5: after decryptPack(encryptPack(A, K), K), with A holding a valid     *)
(* manifest.json, every file entry of A other than contents.json is in the *)
(* result under the same path with the same bytes.                         *)
(***************************************************************************)
C5_RoundTrip ==
  (roundTrip /\ hasValidManifest(uploaded)) =>
    \A i \in 1 .. Len(uploaded) :
      (~isDirectory(uploaded[i].fileName)
         /\ uploaded[i].fileName[Len(uploaded[i].fileName)] # "contents.json") =>
        hasFile(packs["dec"].entries, uploaded[i].fileName, uploaded[i].data)

(***************************************************************************)
(* C6: a file subpacks/<name>/<file> of the upload is, after encoding with *)
(* K and decoding with K, in the result under the same path with its       *)
(* original bytes.                                                         *)
(***************************************************************************)
C6_SubPackRoundTrip ==
  roundTrip =>
    \A i \in 1 .. Len(uploaded) :
      (isSubPackFile(uploaded[i].fileName) /\ Len(uploaded[i].fileName) = 3
         /\ ~isDirectory(uploaded[i].fileName)) =>
        hasFile(packs["dec"].entries, uploaded[i].fileName, uploaded[i].data)

\* the Content Manifest the encoder wrote under contentsPath, and whether it
\* lists path with key
recorded(entries, contentsPath, path, key) ==
  \E j \in 1 .. Len(entries) :
    /\ entries[j].fileName = contentsPath
    /\ entries[j].data.kind = "contents"
    /\ \E k \in 1 .. Len(entries[j].data.body.of.content) :
         /\ entries[j].data.body.of.content[k].path = path
         /\ entries[j].data.body.of.content[k].key = key
\* a file with an excluded name directly in a scope: the top level or a sub pack
excludedInScope(fileName) ==
  /\ fileName[Len(fileName)] \in EXCLUDED_FILES
  /\ Len(fileName) = 1 \/ (isSubPackFile(fileName) /\ Len(fileName) = 3)
scopeContents(fileName) ==
  SubSeq(fileName, 1, Len(fileName) - 1) \o <<"contents.json">>
encrypted == encCall.status = "ok" /\ encCall.outputPath = "enc"

(***************************************************************************)
(* C7: in every scope (top level and every sub pack) encryptPack emits     *)
(* each manifest.json, pack_icon.png and bug_pack_icon.png with the bytes  *)
(* of the input and lists it in the scope's Content Manifest with key      *)
(* null; none is encrypted or listed with a key.                           *)
(***************************************************************************)
C7_ExcludedVerbatim ==
  encrypted =>
    \A i \in 1 .. Len(uploaded) :
      excludedInScope(uploaded[i].fileName) =>
        /\ hasFile(packs["enc"].entries, uploaded[i].fileName, uploaded[i].data)
        /\ recorded(packs["enc"].entries, scopeContents(uploaded[i].fileName),
                    <<uploaded[i].fileName[Len(uploaded[i].fileName)]>>, NullKey)
        /\ \A j \in 1 .. Len(packs["enc"].entries) :
             packs["enc"].entries[j].fileName = uploaded[i].fileName =>
               packs["enc"].entries[j].data.kind # "cipher"

C10_NoOutputOnFailure ==
  [][/\ (encCall.status = "none" /\ encCall'.status # "none" /\ encCall'.step # "done") =>
          (encCall'.status = "rejected" /\ packs' = packs)
     /\ (decCall.status = "none" /\ decCall'.status # "none" /\ decCall'.step # "done") =>
          (decCall'.status = "rejected" /\ packs' = packs)]_vars

\* the call reached the batch and nothing but the pool went wrong
poolUnusable(call) ==
  /\ call.status # "none"
  /\ call.pool \in {"rejected", "pending", "initFailed"}
  /\ call.step \notin {"task", "write"}

(***************************************************************************)
(* C11: whenever the parallel path cannot be used in encrypt0 / decrypt0   *)
(* (pool not initialised, unit not created, executeBatch rejected), the    *)
(* same tasks are run sequentially, the results are index by index those   *)
(* the workers would have returned, and the call completes successfully.   *)
(***************************************************************************)
C11_FallbackAsParallel ==
  /\ poolUnusable(encCall) =>
       (encCall.fellBack /\ encCall.aligned /\ encCall.status = "ok")
  /\ poolUnusable(decCall) =>
       (decCall.fellBack /\ decCall.aligned /\ decCall.status = "ok")

\* the step is the 30 s timer of task t firing while t is dispatched
timeoutStep(t) ==
  /\ tasks[t].exec = "running"
  /\ tasks'[t].exec = "done"
  /\ faults' = faults + 1
\* the registry entries other than that of worker w
otherWorkers(ws, w) == SelectSeq(ws, LAMBDA pw : pw.id # w)

(***************************************************************************)
(* C12: when the 30 s timer of a running task fires, the task is failed    *)
(* with a timeout error, the unit it ran on is idle again, the other units *)
(* and the pending queue are unchanged, and the pool goes on dispatching   *)
(* (the next processNextTask is scheduled).                                *)
(***************************************************************************)
C12_TimeoutFreesUnit ==
  [][\A t \in TaskIds :
       timeoutStep(t) =>
         /\ tasks'[t].promise = "rejected"
         /\ tasks[t].promise = "pending" => tasks'[t].error = "timeout"
         /\ \A i \in 1 .. Len(workers') :
              workers'[i].id = tasks[t].worker => ~workers'[i].busy
         /\ Len(workers') = Len(workers)
         /\ otherWorkers(workers', tasks[t].worker) = otherWorkers(workers, tasks[t].worker)
         /\ taskQueue' = taskQueue
         /\ immediates' = immediates + 1
         /\ ~processCrashed']_vars
\* after a timeout the unit of the timed-out task runs a later task
C12_Witness ==
  \E t \in TaskIds, u \in TaskIds :
    /\ tasks[t].error = "timeout"
    /\ u # t
    /\ tasks[u].exec = "running"
    /\ tasks[u].worker = tasks[t].worker
    /\ \E i \in 1 .. Len(workers) : workers[i].id = tasks[u].worker /\ workers[i].busy

(***************************************************************************)
(* C13: at the step that removes a link's record from the store the        *)
(* backing artifact file is deleted too: a record is never removed while   *)
(* its artifact file still exists.                                         *)
(***************************************************************************)
C13_PurgeDeletesArtifact ==
  [][\A linkId \in LinkIds :
       (linkId \in DOMAIN downloads /\ linkId \notin DOMAIN downloads') =>
         downloads[linkId].filePath \notin tempFiles']_vars

\* C14: whenever the decrypted Content Manifest has an entry with a non-null
\* key whose path is absent from the input archive, decryptPack fails and
\* writes no output.  (A call that hangs on the batch or fails on the output
\* stream is left aside: those are other failures.)
C14_MissingEntryFails ==
  (decCall.missing /\ decCall.status \in {"ok", "rejected"} /\ decCall.step # "write")
    => (decCall.status = "rejected" /\ ~decCall.wrote)

\* C16: once getDownloadFile has returned the path of a link, no operation of
\* the link store deletes the artifact file before the 30 s grace delay of
\* that delivery has elapsed.
C16_GraceDelayKept ==
  [][\A timer \in deleteTimers :
       (/\ now < timer.due
        /\ zipFilePath(timer.linkId) \in tempFiles
        /\ ~tempFileLost(zipFilePath(timer.linkId)))
         => zipFilePath(timer.linkId) \in tempFiles']_vars

InitOfRequests ==
  InitLinks /\ poolCreated(1, TRUE) /\ InitCodec(DefaultPack) /\ InitRequests

SpecRequests == InitOfRequests /\ [][NextRequests]_vars
\* requests in progress at the same time
SpecStaging == InitOfRequests /\ [][NextStaging]_vars

\* the staging files of request n still on disk: its uploads, its output
\* archive and key file, and the download package made for it
stagedFor(request) ==
  {f \in staging : f.name[1] = request.id}
    \cup (IF request.linkId # 0 THEN {zipFilePath(request.linkId)} \cap tempFiles
          ELSE {})

\* C15: when an encrypt or decrypt request has been answered with an error
\* response, none of its staging files (uploaded inputs, output archive, key
\* file, download package) is left on disk.
C15_ErrorLeavesNoStaging ==
  \A i \in 1 .. Len(requests) :
    requests[i].status \in {400, 500} => stagedFor(requests[i]) = {}

\* the link store with its timers running: the clock advances, the interval
\* timer fires, a due setTimeout callback runs
SpecLinksFair ==
  /\ SpecLinks
  /\ WF_vars(clockTick)
  /\ WF_vars(cleanupExpiredFiles)
  /\ WF_vars(\E timer \in deleteTimers : deferredDelete(timer))

\* a stored link whose expiry lies within the horizon of the model's clock
withinHorizon(linkId) ==
  linkId \in DOMAIN downloads /\ downloads[linkId].expiresAt < MaxTicks * Tick

\* C17: every link that is created is eventually purged, record and artifact:
\* with the sweep running every 60 s no record (and no artifact of a record)
\* stays forever.
C17_EventuallyPurged ==
  \A linkId \in LinkIds :
    withinHorizon(linkId)
      ~> (linkId \notin DOMAIN downloads /\ zipFilePath(linkId) \notin tempFiles)

\* the tasks a step dispatches, the tasks it submits, and the queue as it is
\* once the submitted tasks have been pushed (task ids follow submission order)
dispatchedNow == {t \in TaskIds : tasks[t].exec # "running" /\ tasks'[t].exec = "running"}
submittedNow == {t \in TaskIds : tasks[t].promise = "none" /\ tasks'[t].promise # "none"}
queueWithSubmitted ==
  taskQueue \o [i \in 1 .. Cardinality(submittedNow) |-> NumSubmitted + i]
idleUnits(ws) == {ws[i].id : i \in {j \in 1 .. Len(ws) : ~ws[j].busy}}
unitIds(ws) == {ws[i].id : i \in 1 .. Len(ws)}

\* C18: dispatch is FIFO: the tasks a step dispatches are the oldest of the
\* queue and the rest stays queued in order; a dispatched task goes to a unit
\* that was idle or to a unit created at this step; units are created only
\* when every idle unit has been taken and the registry stays within
\* maxWorkers.
C18_FifoDispatch ==
  [][/\ \A i \in 1 .. Cardinality(dispatchedNow) :
          queueWithSubmitted[i] \in dispatchedNow
     /\ taskQueue' = SubSeq(queueWithSubmitted, Cardinality(dispatchedNow) + 1,
                            Len(queueWithSubmitted))
     /\ \A t \in dispatchedNow :
          \/ tasks'[t].worker \in idleUnits(workers)
          \/ /\ tasks'[t].worker \notin unitIds(workers)
             /\ tasks'[t].worker \in unitIds(workers')
     /\ workerIdCounter' # workerIdCounter =>
          /\ idleUnits(workers) \cap idleUnits(workers') = {}
          /\ Len(workers) < maxWorkers
          /\ Len(workers') <= maxWorkers
     /\ (dispatchedNow = {} /\ submittedNow = {}) => taskQueue' = taskQueue]_vars

\* C18 witness: with every unit of a full registry busy, a task waits in the
\* queue while a task submitted before it runs on the unit that an older
\* task has already left
C18_Witness ==
  \E t, u, v \in TaskIds :
    /\ t < u /\ u < v
    /\ tasks[t].exec = "done" /\ tasks[u].exec = "running" /\ tasks[v].exec = "queued"
    /\ tasks[u].worker = tasks[t].worker
    /\ Len(workers) = maxWorkers
    /\ idleUnits(workers) = {}
    /\ taskQueue = <<v>>

\* the registry entry of unit w is busy
busyUnit(ws, w) == \E i \in 1 .. Len(ws) : ws[i].id = w /\ ws[i].busy
\* the step delivers the oldest event of unit w, and it is of type `type`
observed(w, type) ==
  /\ ~processCrashed
  /\ threads[w].outbox # <<>>
  /\ Head(threads[w].outbox).type = type
  /\ threads'[w].outbox = Tail(threads[w].outbox)
\* the step runs processNextTask with a task to dispatch
demandNow ==
  /\ immediates' < immediates \/ submittedNow # {}
  /\ queueWithSubmitted # <<>>

\* C19: a unit goes Idle -> Busy only by a dispatch to it and Busy -> Idle
\* only when the task it holds is settled; a unit leaves the registry exactly
\* when its exit is handled, whether idle or busy, and every unit that enters
\* the registry has a fresh id (a removed unit never returns); a demand met
\* with no idle unit and a registry below maxWorkers creates a unit.
C19_UnitLifecycle ==
  [][/\ \A w \in unitIds(workers) \cap unitIds(workers') :
          /\ (~busyUnit(workers, w) /\ busyUnit(workers', w))
               => \E t \in dispatchedNow : tasks'[t].worker = w
          /\ (busyUnit(workers, w) /\ ~busyUnit(workers', w))
               => \E t \in TaskIds : /\ tasks[t].exec = "running"
                                     /\ tasks[t].worker = w
                                     /\ tasks'[t].exec = "done"
     /\ \A w \in unitIds(workers) : w \notin unitIds(workers') <=> observed(w, "exit")
     /\ \A w \in unitIds(workers') \ unitIds(workers) :
          /\ w >= workerIdCounter
          /\ w < workerIdCounter'
     /\ (/\ demandNow
         /\ idleUnits(workers) = {}
         /\ Len(workers) < maxWorkers
         /\ faults' = faults)
          => workerIdCounter' > workerIdCounter]_vars

\* C19 witness: a unit has been removed while idle, another while busy, or
\* (as here) a unit has been removed and a unit created after it holds a task
C19_Witness ==
  \E w \in DOMAIN threads, t \in TaskIds :
    /\ ~threads[w].alive
    /\ w \notin unitIds(workers)
    /\ tasks[t].exec = "running"
    /\ tasks[t].worker > w
    /\ busyUnit(workers, tasks[t].worker)

\* C20: when the fault of a unit that holds a task is handled, the task is
\* rejected at that step (with the worker-fault error when it was still
\* pending), the exit of the unit follows, and handling the exit removes the
\* unit: a dead unit whose events are all handled is not in the registry.
C20_FaultFailsTask ==
  [][\A w \in DOMAIN threads :
       /\ (observed(w, "error") /\ listener[w] # 0) =>
            /\ tasks'[listener[w]].promise = "rejected"
            /\ tasks[listener[w]].promise = "pending"
                 => tasks'[listener[w]].error = "worker"
            /\ tasks'[listener[w]].exec = "done"
            /\ listener'[w] = 0
            /\ threads'[w].outbox # <<>>
            /\ Head(threads'[w].outbox).type = "exit"
       /\ observed(w, "exit") => w \notin unitIds(workers')
       /\ (~threads'[w].alive /\ threads'[w].outbox = <<>>)
            => w \notin unitIds(workers')]_vars

\* C20 witness: a task was failed with the worker-fault error and its unit
\* has left the registry
C20_Witness ==
  \E t \in TaskIds :
    /\ tasks[t].promise = "rejected"
    /\ tasks[t].error = "worker"
    /\ ~threads[tasks[t].worker].alive
    /\ threads[tasks[t].worker].outbox = <<>>
    /\ tasks[t].worker \notin unitIds(workers)

\* a worker answers one of the tasks of the decryptPack call with success =
\* false (the cipher cannot be created with the key of the entry)
failsInWorker(call) ==
  /\ call.opened
  /\ LET entries == entriesOf(packs, call.inputPath)
         parsed == decryptContentsJsonFromEntries(entries, <<"contents.json">>, call.key)
         taskList == decryptTasks(entries, parsed.content)
     IN  /\ parsed.ok
         /\ \E i \in 1 .. Len(taskList) : ~workerResult("decrypt", taskList[i]).success

\* C21: a rejected batch gives the call none of the workers' results (the
\* call goes on with the results of the sequential fallback); a cipher
\* failure inside a worker arrives in a fulfilled batch as success = false
\* and makes the call fail at the result loop, without sequential fallback
\* and without output.
C21_BatchAllOrNothing ==
  /\ \A call \in {encCall, decCall} :
       /\ call.pool = "rejected" => (call.fellBack /\ call.submitted > 0)
       /\ call.pool = "fulfilled" => ~call.fellBack
  /\ (failsInWorker(decCall) /\ decCall.pool = "fulfilled")
       => /\ decCall.status = "rejected"
          /\ decCall.step = "task"
          /\ ~decCall.fellBack
          /\ ~decCall.wrote
          /\ decCall.outputBefore \/ decCall.outputPath \notin DOMAIN packs

\* C21 witness: a decryptPack call failed at the result loop on the fulfilled
\* batch of the pool
C21_Witness ==
  /\ failsInWorker(decCall)
  /\ decCall.pool = "fulfilled"
  /\ decCall.submitted > 0
  /\ decCall.status = "rejected"
  /\ decCall.step = "task"

\* C30: the result a submitter receives is the WorkerResult of its own task
\* (its fileName is the task's fileName), also after an earlier task timed
\* out on the same unit.
C30_OwnResult ==
  \A t \in TaskIds : tasks[t].promise = "fulfilled" => tasks[t].result = t

\* the Content the encoder wrote at the top level of the output
writtenContent(entries) ==
  LET j == CHOOSE k \in 1 .. Len(entries) :
             entries[k].fileName = <<"contents.json">> /\ entries[k].data.kind = "contents"
  IN  entries[j].data.body.of.content
\* the top-level files of the upload that encrypt0 hands to the pool
isEncryptedFile(e) ==
  ~isDirectory(e.fileName) /\ ~isSubPackFile(e.fileName) /\ ~isExcluded(e.fileName)

\* C22: for every non-excluded top-level file the Content Manifest written
\* by encryptPack has exactly one entry for its path, and the output holds
\* at that path bytes encrypted under the key of that entry; on the parallel
\* path and on the sequential fallback.
C22_RecordedKeyEncrypts ==
  encrypted =>
    \A i \in 1 .. Len(uploaded) :
      isEncryptedFile(uploaded[i]) =>
        LET content == writtenContent(packs["enc"].entries)
            listed == {k \in 1 .. Len(content) : content[k].path = uploaded[i].fileName}
        IN  /\ Cardinality(listed) = 1
            /\ \A k \in listed :
                 \E j \in 1 .. Len(packs["enc"].entries) :
                   /\ packs["enc"].entries[j].fileName = uploaded[i].fileName
                   /\ packs["enc"].entries[j].data.kind = "cipher"
                   /\ packs["enc"].entries[j].data.key = content[k].key

\* the files of the upload below the sub pack root subPackPath
subPackFiles(subPackPath) ==
  {i \in 1 .. Len(uploaded) :
     ~isDirectory(uploaded[i].fileName) /\ startsWith(uploaded[i].fileName, subPackPath)}

\* for each sub pack root subpacks/<name>/ of the upload the output holds
\* subpacks/<name>/contents.json: it lists the files of the sub pack with
\* paths relative to the root and fresh per-entry keys and carries the
\* contentId of the parent; `independent` tells whether its key differs from
\* the key of the parent's Content Manifest
subPackManifestEmitted(independent) ==
  \A d \in 1 .. Len(uploaded) :
    isSubPackRoot(uploaded[d].fileName) =>
      \E j \in 1 .. Len(packs["enc"].entries) :
        LET m == packs["enc"].entries[j]
            root == uploaded[d].fileName
        IN  /\ m.fileName = SubSeq(root, 1, 2) \o <<"contents.json">>
            /\ m.data.kind = "contents"
            /\ m.data.header = contentsHeader(findPackUUIDFromEntries(uploaded).bytes)
            /\ Len(m.data.body.of.content) = Cardinality(subPackFiles(root))
            /\ \A i \in subPackFiles(root) :
                 \E k \in 1 .. Len(m.data.body.of.content) :
                   /\ m.data.body.of.content[k].path =
                        SubSeq(uploaded[i].fileName, 3, Len(uploaded[i].fileName))
                   /\ m.data.body.of.content[k].key.len = KEY_LENGTH
                   /\ m.data.body.of.content[k].key # encCall.key
            /\ (m.data.body.key # encCall.key) <=> independent

contentsIndex(call) == findEntry(entriesOf(packs, call.inputPath), <<"contents.json">>)
contentsData(call) == entriesOf(packs, call.inputPath)[contentsIndex(call)].data
\* the call failed at the contents step with this error, submitted no task and
\* wrote no output
failedAtContents(call, error) ==
  /\ call.status = "rejected"
  /\ call.step = "contents"
  /\ call.error = error
  /\ call.submitted = 0
  /\ call.pool = "unused"
  /\ ~call.wrote
  /\ call.outputBefore \/ call.outputPath \notin DOMAIN packs

\* decryptPack failed at the contents step as the archive's contents.json
\* demands: format error when absent or undersized, key error when the rest
\* of the file is not a manifest encrypted under the given key
contentsStepFails(call) ==
  IF contentsIndex(call) = 0
  THEN failedAtContents(call, "format")
  ELSE IF contentsData(call).len < HeaderSize + MinCipherSize
  THEN failedAtContents(call, "format")
  ELSE (contentsData(call).kind # "contents"
        \/ contentsData(call).body.key # call.key)
       => failedAtContents(call, "key")

\* C24: a decryptPack call that opened its archive fails with a format error
\* when contents.json is absent or shorter than the header plus the minimum
\* cipher size, and with a key error when the rest of the file is not a
\* manifest encrypted under the given key; in each case no task was
\* submitted and no output written.
C24_ContentsStepFails == decCall.opened => contentsStepFails(decCall)

\* the same for the archives whose listing yields at least one entry
C24_ListedArchiveFails ==
  (decCall.opened /\ entriesOf(packs, decCall.inputPath) # <<>>)
    => contentsStepFails(decCall)

\* a call on an archive with an undersized contents.json failed with the
\* format error
C24_UndersizedRejected ==
  /\ decCall.opened
  /\ contentsIndex(decCall) # 0
  /\ contentsData(decCall).len < HeaderSize + MinCipherSize
  /\ failedAtContents(decCall, "format")

\* a call given a key other than the one the manifest was encrypted under
\* failed with the key error
C24_WrongKeyRejected ==
  /\ decCall.opened
  /\ contentsIndex(decCall) # 0
  /\ contentsData(decCall).kind = "contents"
  /\ contentsData(decCall).body.key # decCall.key
  /\ failedAtContents(decCall, "key")

\* the call failed at the contentId step: nothing emitted, encrypted or
\* submitted, nothing written
failedAtContentId(call) ==
  /\ call.status = "rejected"
  /\ call.step = "manifest"
  /\ call.error = "format"
  /\ call.submitted = 0
  /\ call.pool = "unused"
  /\ ~call.wrote

\* C25: an encryptPack call that opened a pack whose manifest.json is absent
\* or yields no header.uuid fails with a format error at the contentId step,
\* before any directory is emitted, any entry encrypted or any task
\* submitted to the pool.
C25_ManifestStepFails ==
  (/\ encCall.opened
   /\ \/ findPackUUIDFromEntries(uploaded).threw
      \/ ~findPackUUIDFromEntries(uploaded).defined)
    => failedAtContentId(encCall)

\* the same for the packs that list at least one entry and whose lookup of
\* the uuid throws: no manifest.json, no JSON, no header
C25_LookupThrows ==
  (/\ encCall.opened
   /\ uploaded # <<>>
   /\ findPackUUIDFromEntries(uploaded).threw)
    => failedAtContentId(encCall)

\* a call on a pack whose manifest header has no uuid failed in
\* generateContentsJson after its tasks were submitted
C25_LateFailure ==
  /\ encCall.opened
  /\ ~findPackUUIDFromEntries(uploaded).threw
  /\ ~findPackUUIDFromEntries(uploaded).defined
  /\ encCall.status = "rejected"
  /\ encCall.step = "header"
  /\ encCall.submitted > 0

\* the entries of the output of decryptPack that re-embed the decrypted
\* manifest: contents.json holding the indented JSON of the manifest the call
\* decrypted
embeddedManifests(call) ==
  LET parsed == decryptContentsJsonFromEntries(entriesOf(packs, call.inputPath),
                                               <<"contents.json">>, call.key)
      out == packs[call.outputPath].entries
  IN  {i \in 1 .. Len(out) :
         /\ out[i].fileName = <<"contents.json">>
         /\ out[i].data = jsonStringifyPretty(parsed.content)}

\* C26: the output of a successful decryptPack contains the entry
\* contents.json holding the decrypted manifest JSON if and only if
\* preserveManifest was set (and then once).
C26_ManifestKeptIffAsked ==
  decCall.status = "ok" =>
    /\ decCall.preserve => Cardinality(embeddedManifests(decCall)) = 1
    /\ ~decCall.preserve => embeddedManifests(decCall) = {}

\* C26 witness: a successful call with preserveManifest set whose output
\* holds the decrypted manifest of an archive made by encryptPack
C26_Witness ==
  /\ decCall.status = "ok"
  /\ decCall.inputPath = "enc"
  /\ decCall.preserve
  /\ embeddedManifests(decCall) # {}

\* a successful call without preserveManifest on an archive whose manifest
\* lists the path contents.json with a key: the output holds under that name
\* the bytes of the archive's contents.json decrypted as a file, which is not
\* the manifest JSON
C26_SelfListedEntry ==
  /\ decCall.status = "ok"
  /\ ~decCall.preserve
  /\ embeddedManifests(decCall) = {}
  /\ \E i \in 1 .. Len(packs[decCall.outputPath].entries) :
       packs[decCall.outputPath].entries[i].fileName = <<"contents.json">>

\* the Content Manifest files in the output of a successful encryptPack
generatedManifests ==
  {i \in 1 .. Len(packs["enc"].entries) : packs["enc"].entries[i].data.kind = "contents"}
\* the layout of the file: 0x100 header bytes, then the ciphertext; bytes 0-3
\* zero, 4-7 FC B9 CF 9B, 8-0xF zero, byte 0x10 the length N of the
\* contentId, then its N bytes, then zeros
hasHeaderLayout(data, contentId) ==
  /\ Len(data.header) = 256
  /\ data.len = 256 + data.body.len
  /\ data.body.kind = "cipher"
  /\ \A i \in 1 .. 4 : data.header[i] = 0
  /\ SubSeq(data.header, 5, 8) = <<252, 185, 207, 155>>
  /\ \A i \in 9 .. 16 : data.header[i] = 0
  /\ data.header[17] = Len(contentId)
  /\ 17 + Len(contentId) <= 256
  /\ SubSeq(data.header, 18, 17 + Len(contentId)) = contentId
  /\ \A i \in (18 + Len(contentId)) .. 256 : data.header[i] = 0

\* C27: every Content Manifest file in the output of a successful encryptPack
\* (of the pack and of each sub pack) has the 0x100 byte header with version,
\* magic, the byte length of the pack's contentId at 0x10, the contentId
\* bytes behind it and zeros elsewhere, followed by the ciphertext.
C27_HeaderLayout ==
  encrypted =>
    \A i \in generatedManifests :
      hasHeaderLayout(packs["enc"].entries[i].data,
                      findPackUUIDFromEntries(uploaded).bytes)

\* the same for the packs whose contentId fits behind the length byte
C27_FittingIdLayout ==
  (encrypted /\ 17 + Len(findPackUUIDFromEntries(uploaded).bytes) <= 256) =>
    \A i \in generatedManifests :
      hasHeaderLayout(packs["enc"].entries[i].data,
                      findPackUUIDFromEntries(uploaded).bytes)

\* a pack with sub pack was encrypted and its Content Manifests have the layout
C27_TwoManifests ==
  /\ encrypted
  /\ Cardinality(generatedManifests) > 1
  /\ \A i \in generatedManifests :
       hasHeaderLayout(packs["enc"].entries[i].data, IdU1)

\* C28: encryptPack rejects every pack whose contentId is longer than 255
\* bytes: no call on such a pack succeeds, so no header is written whose
\* length byte differs from the contentId's length or that holds only a
\* part of the contentId.
C28_LongIdRejected ==
  (encCall.opened /\ Len(findPackUUIDFromEntries(uploaded).bytes) > 255)
    => encCall.status = "rejected" /\ ~encCall.wrote

\* a successful call wrote a header whose length byte is not the length of
\* the pack's contentId and that holds only the first bytes of it
C28_WrappedLength ==
  /\ encrypted
  /\ \E i \in generatedManifests :
       LET header == packs["enc"].entries[i].data.header
           contentId == findPackUUIDFromEntries(uploaded).bytes
       IN  /\ header[17] # Len(contentId)
           /\ header[17] = Len(contentId) % 256
           /\ SubSeq(header, 18, 256) = SubSeq(contentId, 1, 256 - 17)

\* C29: createDownloadLink stores the record unused and expiring 5 minutes
\* after its creation; a getDownloadFile call for a link that is unused,
\* whose artifact exists and whose expiry time is not yet passed
\* (now <= expiresAt) returns the artifact path and sets the used flag.
C29_ValidLinkResolves ==
  [][\A linkId \in LinkIds :
       /\ (linkId \notin DOMAIN downloads /\ linkId \in DOMAIN downloads')
            => /\ ~downloads'[linkId].downloaded
               /\ downloads'[linkId].expiresAt = now + 5 * 60 * 1000
       /\ (/\ calls'[linkId] = calls[linkId] + 1
           /\ linkId \in DOMAIN downloads
           /\ ~downloads[linkId].downloaded
           /\ downloads[linkId].filePath \in tempFiles
           /\ now <= downloads[linkId].expiresAt)
            => /\ lastResolve'.id = linkId
               /\ lastResolve'.result = "path"
               /\ linkId \in DOMAIN downloads'
               /\ downloads'[linkId].downloaded
               /\ downloads'[linkId].filePath = downloads[linkId].filePath
               /\ delivered'[linkId] = delivered[linkId] + 1]_vars

\* C29 witness: a call made exactly at the expiry time of an unused link has
\* returned the path and set the flag
C29_Witness ==
  \E linkId \in DOMAIN downloads :
    /\ lastResolve.id = linkId
    /\ lastResolve.result = "path"
    /\ ~lastResolve.wasDownloaded
    /\ lastResolve.fileExisted
    /\ downloads[linkId].downloaded
    /\ now = downloads[linkId].expiresAt

\* C31: no execution unit has two tasks in flight: the tasks posted to a
\* unit and not yet finished by it are at most one, and a unit whose
\* registry entry is idle has none.
C31_OneTaskPerUnit ==
  \A w \in DOMAIN threads :
    /\ Len(threads[w].inbox) <= 1
    /\ \A i \in 1 .. Len(workers) :
         (workers[i].id = w /\ ~workers[i].busy) => threads[w].inbox = <<>>

\* as long as no timer has fired (and no unit failed) the units never hold
\* more than one unfinished task
C31_NoFaultOneTask ==
  faults = 0 => \A w \in DOMAIN threads : Len(threads[w].inbox) <= 1

\* a unit took its second task after a reply
C31_ReusedAfterReply ==
  /\ faults = 0
  /\ \E t \in TaskIds, u \in TaskIds :
       /\ t # u
       /\ tasks[t].promise = "fulfilled"
       /\ tasks[u].exec = "running"
       /\ tasks[u].worker = tasks[t].worker

\* C32: a pending task is never dispatched to a unit that has terminated:
\* at every step that dispatches a task, the thread of the chosen unit is
\* alive.
C32_DispatchToLiveUnit ==
  [][\A t \in TaskIds :
       (tasks[t].exec # "running" /\ tasks'[t].exec = "running")
         => threads'[tasks'[t].worker].alive]_vars

\* a task is held by a unit whose thread is dead and never received it: the
\* 'error' was handled, the deferred processNextTask ran, the 'exit' had
\* not yet been handled
C32_HeldByDeadUnit ==
  \E t \in TaskIds :
    /\ tasks[t].exec = "running"
    /\ tasks[t].promise = "pending"
    /\ ~threads[tasks[t].worker].alive
    /\ listener[tasks[t].worker] = t
    /\ \A i \in 1 .. Len(threads[tasks[t].worker].outbox) :
         threads[tasks[t].worker].outbox[i].type # "error"

\* the tasks of batch b that the pool still works on: in the pending queue,
\* held by a unit, or posted to a thread that has not finished them
abandonedWork(b) ==
  {t \in batchTasks(b) :
     \/ tasks[t].exec \in {"queued", "running"}
     \/ \E w \in DOMAIN threads :
          \E i \in 1 .. Len(threads[w].inbox) : threads[w].inbox[i] = t}

\* C33: once executeBatch has rejected, no task of that batch is in the
\* pending queue, held by a unit or still executing on a thread (so the
\* sequential fallback is the only execution of the remaining tasks and the
\* abandoned batch occupies no unit).
C33_RejectedBatchLeavesNoWork ==
  \A b \in 1 .. nextBatch :
    batchState(b) = "rejected" => abandonedWork(b) = {}

\* a task of a rejected batch was dispatched after the rejection and ran to
\* its reply
C33_RanAfterRejection ==
  \E t \in TaskIds, u \in TaskIds :
    /\ tasks[t].batch = tasks[u].batch
    /\ tasks[t].promise = "rejected"
    /\ tasks[t].error = "timeout"
    /\ t < u
    /\ tasks[u].promise = "fulfilled"
    /\ tasks[u].worker = tasks[t].worker

\* the step submits the single task t and createWorker throws in it
spawnFailedFor(t) ==
  /\ tasks[t].promise = "none"
  /\ tasks'[t].error = "spawn"
  /\ \A u \in TaskIds \ {t} : tasks[u].promise = "none" <=> tasks'[u].promise = "none"

\* C34: when creating a unit fails while a task is submitted, executeTask
\* rejects and the pool is as before the submission: the task is not in the
\* pending queue and registry, id counter and threads are unchanged.
C34_FailedSpawnLeavesPoolAsBefore ==
  [][\A t \in TaskIds :
       spawnFailedFor(t) =>
         /\ tasks'[t].promise = "rejected"
         /\ taskQueue' = taskQueue
         /\ workers' = workers
         /\ workerIdCounter' = workerIdCounter
         /\ threads' = threads]_vars

\* the part of it that the code keeps: the task is rejected and registry, id
\* counter and threads are unchanged
C34_FailedSpawnLeavesRegistry ==
  [][\A t \in TaskIds :
       spawnFailedFor(t) =>
         /\ tasks'[t].promise = "rejected"
         /\ workers' = workers
         /\ workerIdCounter' = workerIdCounter
         /\ threads' = threads]_vars

\* a task whose submission was rejected because createWorker threw was
\* dispatched later and is held by a unit
C34_RejectedTaskDispatched ==
  \E t \in TaskIds :
    /\ tasks[t].promise = "rejected"
    /\ tasks[t].error = "spawn"
    /\ tasks[t].exec = "running"



\* C35: after terminate() every task submitted before the call whose promise
\* was unsettled at the call (queued or in flight) is eventually settled.
terminateCalledWith(t) == shutdown.state # "none" /\ t \in shutdown.waiting
C35_TerminateSettlesPending ==
  \A t \in TaskIds :
    terminateCalledWith(t) ~> (tasks[t].promise # "pending" \/ processCrashed)
\* terminate() has returned and a task of the emptied queue is left unsettled
C35_DroppedFromQueue ==
  /\ maxWorkers >= 1
  /\ faults = 0
  /\ shutdown.state = "done"
  /\ \E t \in shutdown.waiting :
       /\ tasks[t].promise = "pending"
       /\ tasks[t].exec = "queued"
       /\ \A i \in 1 .. Len(taskQueue) : taskQueue[i] # t

\* C36: for every CPU count (0 and 1 included), in production and in
\* development, and for every maxWorkers argument, the cap of the pool is at
\* least 1, so that a submitted task can be dispatched once a unit is free.
MaxCores == 16
MaxWorkersArgs == (0 - 1) .. MaxCpu
C36_CapAtLeastOne ==
  /\ maxWorkers >= 1
  /\ \A maxWorkersArg \in MaxWorkersArgs, cpuCount \in 0 .. MaxCores,
        production \in BOOLEAN :
        WorkerPoolMaxWorkers(maxWorkersArg, cpuCount, production) >= 1
\* the defaults are as stated, and they are at least 1 in production and on
\* every machine that reports a CPU
C36_Defaults ==
  \A cpuCount \in 0 .. MaxCores :
    /\ defaultWorkers(cpuCount, TRUE) = Min(Max(cpuCount - 1, 1), 4)
    /\ defaultWorkers(cpuCount, FALSE) = Min(cpuCount, 8)
    /\ defaultWorkers(cpuCount, TRUE) \in 1 .. 4
    /\ cpuCount >= 1 => defaultWorkers(cpuCount, FALSE) \in 1 .. 8
    /\ \A maxWorkersArg \in 1 .. MaxCpu :
         /\ WorkerPoolMaxWorkers(maxWorkersArg, cpuCount, TRUE) = maxWorkersArg
         /\ WorkerPoolMaxWorkers(maxWorkersArg, cpuCount, FALSE) = maxWorkersArg
\* a pool built without CPU information outside production: cap 0, the
\* submitted task waits and no unit exists or can be created
C36_NothingDispatchable ==
  /\ maxWorkers = 0
  /\ WorkerPoolMaxWorkers(0, 0, FALSE) = 0
  /\ WorkerPoolMaxWorkers(0 - 1, 1, TRUE) < 0
  /\ taskQueue # <<>>
  /\ workers = <<>>
  /\ ~MayCreate(workers, maxWorkers)

\* C37: each dispatched task is settled exactly once, by the first of its
\* result message, error event, postMessage failure or 30 s timeout; a later
\* event of the same task changes neither its outcome nor, a second time, the
\* busy flag of its unit.
isSettled(t) == tasks[t].promise \in {"fulfilled", "rejected"}
outcomeKept(t) ==
  /\ tasks'[t].promise = tasks[t].promise
  /\ tasks'[t].result = tasks[t].result
  /\ tasks'[t].error = tasks[t].error
\* the main thread handles a reply of worker w whose task is settled already
lateReply(w) ==
  /\ observed(w, "message")
  /\ tasks[Head(threads[w].outbox).fileName].exec = "done"
C37_SettledExactlyOnce ==
  [][/\ \A t \in TaskIds :
          /\ isSettled(t) => outcomeKept(t)
          /\ (tasks[t].exec = "running" /\ tasks'[t].exec = "done")
               => ~isSettled(t) /\ tasks'[t].promise \in {"fulfilled", "rejected"}
     /\ \A w \in DOMAIN threads :
          lateReply(w) => workers' = workers /\ tasks' = tasks]_vars
\* the outcome of a settled task never changes, and the event that ends a
\* dispatch whose task is still pending settles it
C37_OutcomeKept ==
  [][\A t \in TaskIds :
       /\ isSettled(t) => outcomeKept(t)
       /\ (tasks[t].exec = "running" /\ tasks'[t].exec = "done"
             /\ tasks[t].promise = "pending")
            => tasks'[t].promise \in {"fulfilled", "rejected"}]_vars
\* a late reply that finds no task on its unit changes nothing
C37_LateReplyToIdleUnit ==
  [][\A w \in DOMAIN threads :
       (lateReply(w) /\ listener[w] = 0)
         => workers' = workers /\ tasks' = tasks]_vars
\* a late reply that finds the next task on its unit: the task that timed
\* out was settled by its timer, and its reply settled the next task and
\* made the unit idle again
C37_LateReplyFreedUnit ==
  \E t, u \in TaskIds :
    /\ t # u
    /\ tasks[t].error = "timeout"
    /\ tasks[t].worker = tasks[u].worker
    /\ tasks[u].promise = "fulfilled"
    /\ tasks[u].result = t
    /\ \E i \in 1 .. Len(workers) :
         workers[i].id = tasks[u].worker /\ ~workers[i].busy

\* C38: in every reachable state the registry holds at most maxWorkers units
\* and the number of busy units is at most the size of the registry, under
\* every interleaving of dispatches, completions, exits and terminate().
C38_RegistryWithinCap ==
  /\ getStats.totalWorkers <= getStats.maxWorkers
  /\ getStats.busyWorkers <= getStats.totalWorkers
\* the registry is full and busy again after a unit has exited and been
\* replaced
C38_Witness ==
  /\ getStats.maxWorkers = 2
  /\ getStats.totalWorkers = 2
  /\ getStats.busyWorkers = 2
  /\ workerIdCounter > 2
\* the registry is full while terminate() awaits the exit of earlier units
C38_FullDuringShutdown ==
  /\ shutdown.state = "awaiting"
  /\ getStats.maxWorkers >= 1
  /\ getStats.totalWorkers = getStats.maxWorkers
  /\ \E i \in 1 .. Len(workers) : workers[i].id \notin shutdown.awaited

\* C39: getDownloadFile(id) for an unused, unexpired link whose artifact file
\* no longer exists returns null and removes the record, sets no used flag
\* and schedules no deferred deletion; every later call for that id returns
\* null as well.
calledNow(linkId) == calls'[linkId] = calls[linkId] + 1
artifactMissing(linkId) ==
  /\ linkId \in DOMAIN downloads
  /\ ~downloads[linkId].downloaded
  /\ now <= downloads[linkId].expiresAt
  /\ ~(downloads[linkId].filePath \in tempFiles)
\* the id was handed out and its record is gone
linkGone(linkId) == linkId \in usedIds /\ linkId \notin DOMAIN downloads
C39_MissingArtifactInvalidates ==
  [][\A linkId \in LinkIds :
       /\ (calledNow(linkId) /\ artifactMissing(linkId))
            => /\ lastResolve'.id = linkId
               /\ lastResolve'.result = "null"
               /\ linkId \notin DOMAIN downloads'
               /\ deleteTimers' = deleteTimers
               /\ delivered' = delivered
               /\ tempFiles' = tempFiles
       /\ linkGone(linkId)
            => /\ linkId \notin DOMAIN downloads'
               /\ calledNow(linkId)
                    => /\ lastResolve'.result = "null"
                       /\ delivered' = delivered
                       /\ deleteTimers' = deleteTimers]_vars
\* the call that found the artifact missing has returned null and the
\* record is gone
C39_Witness ==
  /\ lastResolve.id \in LinkIds
  /\ lastResolve.hadRecord
  /\ ~lastResolve.wasExpired
  /\ ~lastResolve.wasDownloaded
  /\ ~lastResolve.fileExisted
  /\ lastResolve.result = "null"
  /\ linkGone(lastResolve.id)
  /\ delivered[lastResolve.id] = 0
  /\ deleteTimers = {}

\* C40: two encrypt or decrypt requests in progress at the same time never
\* use the same staging output path or key-file path, so that neither
\* overwrites, packages or deletes the staged output of the other.
inProgress(n) == handlers[n].pc \in {"crypto", "packaging"}
pathsOf(n) == stagingPaths(handlers[n].kind, handlers[n].timestamp)
C40_DistinctStagingPaths ==
  \A m, n \in RequestIds :
    (m # n /\ inProgress(m) /\ inProgress(n)) => pathsOf(m) \cap pathsOf(n) = {}
\* requests of different kinds, or with different timestamps, share no path
C40_DistinctWhenApart ==
  \A m, n \in RequestIds :
    (/\ m # n /\ inProgress(m) /\ inProgress(n)
     /\ \/ handlers[m].kind # handlers[n].kind
        \/ handlers[m].timestamp # handlers[n].timestamp)
      => pathsOf(m) \cap pathsOf(n) = {}
\* a request answered 200 whose download archive holds the output of another
\* request
C40_PackagedForeignOutput ==
  \E m, n \in RequestIds :
    /\ m # n
    /\ handlers[n].status = 200
    /\ m \in handlers[n].zipped
\* a request answered 200 whose staged output was deleted by another request
\* before it was packaged
C40_PackagedNothing ==
  \E n \in RequestIds : handlers[n].status = 200 /\ handlers[n].zipped = {0}
====
